---------------------------- MODULE Spec2Model ----------------------------
(***************************************************************************)
(* Verification model of the m-cedro relay: the TcpStream connection       *)
(* (src/src/tcp-stream.ts, TcpStreamLive), the WebSocket fan-out server    *)
(* (src/src/websocket-server.ts, createTcpServer), the Elysia broadcast    *)
(* endpoint (src/src/server/wss.ts), the connection of the minimal example *)
(* (src/src/websocket-server.ts, CedroStreamLive), the framing stage       *)
(* (src/src/dump.ts, messageStream), the data handler of TcpClient         *)
(* (src/src/index.ts) and the decoder (src/unnamed/part_009,               *)
(* parseCedroMessage).                                                     *)
(***************************************************************************)
EXTENDS Integers, Sequences, FiniteSets, TLC

(***************************************************************************)
(* Bounds of the model.                                                    *)
(***************************************************************************)
\* number of messages handed to TcpStream.send / sendText
MaxSend == 3

\* number of WebSocket connections the server sees
NumWs == 2

\* number of different values Math.random().toString(36).substring(2, 9)
\* yields in the model
NumIds == 2

\* number of messages offered to the subscribers' outgoing queues in total
MaxMsgs == 2

\* number of calls of broadcastToClients
MaxBroadcasts == 2

\* number of invocations of the server's close effect
NumClosers == 2

\* number of chunks the socket's data callback delivers
MaxData == 2

\* number of bytes of the inbound byte sequence the framing stage is fed
MaxBytes == 3

\* number of characters of the chunk handed to the data handler of TcpClient
MaxChunkLen == 4

\* number of characters that follow `T:` in a text handed to parseCedroMessage
MaxText == 4

\* number of field:value pairs of a record handed to the codec
MaxFields == 2

\* number of messages the metrics service receives from the subscription
MaxReceived == 4

\* config.maxWindowMessages (METRICS max items of one window; default 1_000_000)
MaxWindowMessages == 2

\* config.rateWindowCount, the number N of windows averaged (default 10)
RateWindowSize == 2

\* number of window intervals that elapse on an empty window
MaxIdle == 1

\* number of chunks the socket of makeTcpClient delivers
MaxChunks == 2

\* number of bytes of one chunk the socket of makeTcpClient delivers
MaxChunkBytes == 2

\* number of iterations of the framing loop of receive$ that are followed
MaxLoop == 3


\* the messages the producer of groupedWithin holds ahead of the window
MaxAhead == 1
\* the messages the max tracker processes
MaxTracked == 3

\* config.windowSize, the window interval in ms (METRICS_WINDOW_MS default)
WindowSize == 500

\* the slack of the future timestamp check of validateMetrics, in ms
FutureSlack == 1000

\* the threshold of `if (currentErrors > 3)` in the writer's catch
WriteErrorBudget == 3

\* Effect.timeout(Duration.millis(3000)) around Bun.connect, in seconds
ConnectTimeoutSeconds == 3

VARIABLES
  \* ---- TcpStreamLive (src/src/tcp-stream.ts) ----
  connState,        \* "connecting" | "open" | "failed" | "timeout"
  isClosing,        \* Ref isClosing
  writeErrorCount,  \* Ref writeErrorCount
  outgoingQueue,    \* items of the outgoing Queue
  writerFiber,      \* "none" | "take" | "write" | "failed" | "interrupted"
  writerData,       \* the item the writer took and has not yet written
  shutPc,           \* one performShutdown run per cleanup trigger
  teardown,         \* how often each step of the teardown has been executed
  sendCount,        \* number of send / sendText calls so far
  writeLog,         \* the bunSocket.write calls so far, <<message, outcome>>
  connectTimer,     \* seconds since Bun.connect was called; TimerOff once settled
  incomingQueue,    \* items of the incoming Queue
  dataCount,        \* number of calls of the socket's data callback so far
  streamLog,        \* the chunks the `stream` of the handle has emitted
  queuedAtClose,    \* the outgoing queue as the teardown found it
  atCleanup         \* the counts at the moment the queues were shut down

VARIABLES
  \* ---- createTcpServer (src/src/websocket-server.ts) ----
  wsState,          \* per connection: "new" | "open" | "closed"
  wsId,             \* ws.data.id
  clients,          \* the Map clients: id -> the connection whose fiber it holds
  clientFiber,      \* clientFiber: "none" | "running" | "closing" | "cleanup" | "done"
  wsWriter,         \* the forkScoped writer: "none" | "take" | "send" | "died" | "interrupted"
  wsData,           \* the item the writer took and has not yet pushed
  wsOutgoingQueue,  \* ws.data.outgoingQueue
  wsQueuesShutdown, \* ws.data.incomingQueue / outgoingQueue have been shut down
  offered,          \* the messages send / sendText put into the outgoing queue
  pushLog,          \* the messages ws.send has been called with, in order
  clientsQueue,     \* the clients handed to the `clients` stream
  closeAlreadyCalled, \* Ref closeAlreadyCalled
  closePc,          \* one run of the close effect per invocation
  closeTargets,     \* the fibers a run of close interrupts and waits for
  srvTeardown       \* how often each step of the server teardown has been executed

\* the inbound side of the connection
tcpInVars == <<incomingQueue, dataCount, streamLog>>

\* what the teardown found and left
tcpMarks == <<queuedAtClose, atCleanup>>

tcpVars == <<connState, isClosing, writeErrorCount, outgoingQueue,
             writerFiber, writerData, shutPc, teardown, sendCount, writeLog,
             connectTimer, tcpInVars, tcpMarks>>

srvVars == <<wsState, wsId, clients, clientFiber, wsWriter, wsData,
             wsOutgoingQueue, wsQueuesShutdown, offered, pushLog,
             clientsQueue, closeAlreadyCalled, closePc, closeTargets,
             srvTeardown>>

VARIABLES
  \* ---- the Elysia endpoint (src/src/server/wss.ts) ----
  connectedClients, \* the Set connectedClients, in insertion order
  wssReceived,      \* per client: the messages its send accepted, in order
  broadcasts,       \* number of calls of broadcastToClients so far
  lastBroadcast     \* the last call: message, clients in the set, client whose send threw

wssVars == <<connectedClients, wssReceived, broadcasts, lastBroadcast>>

VARIABLES
  \* ---- CedroStreamLive (src/src/websocket-server.ts) ----
  cedroSocket,      \* the net.Socket: "connecting" | "connected" | "refused" | "errored" | "closed"
  cedroIncoming,    \* items of incomingQueue, [tag, value]
  cedroDataCount,   \* number of 'data' events so far
  cedroStream,      \* the consumer of `stream`: "running" | "failed"
  cedroStreamLog,   \* the chunks `stream` has emitted
  cedroOutgoing,    \* items of outgoingQueue
  cedroWriter,      \* writerFiber: "take" | "write" | "failed"
  cedroWriterData,  \* the item the writer took and has not yet written
  cedroWritten,     \* the socket.write calls so far
  cedroSendCount    \* number of send / sendText calls so far

cedroVars == <<cedroSocket, cedroIncoming, cedroDataCount, cedroStream,
               cedroStreamLog, cedroOutgoing, cedroWriter, cedroWriterData,
               cedroWritten, cedroSendCount>>

VARIABLES
  \* ---- messageStream of the dump program (src/src/dump.ts) ----
  wire,             \* the bytes the connection has not delivered yet
  wireDone,         \* the bytes delivered so far, chunk after chunk
  frameBuffer,      \* the state of Stream.mapAccum: the leftover text
  frames            \* the messages messageStream has emitted

frameVars == <<wire, wireDone, frameBuffer, frames>>

VARIABLES
  \* ---- the data handler of TcpClient.connect (src/src/index.ts) ----
  hChunk,           \* the text of the chunk the socket delivers
  hStatus,          \* "idle" | "completed" | "returned" | "threw"
  hLogged,          \* the segments counted and logged
  messageCount      \* this.messageCount

handlerVars == <<hChunk, hStatus, hLogged, messageCount>>

VARIABLES
  \* ---- the codec (src/unnamed/part_009, src/cedroParser.ts) ----
  codecIn,          \* the text handed to parseCedroMessage
  codecOut,         \* what the call did: [status, ticker, fields, named]
  codecOutRoot,     \* what the parser of src/cedroParser.ts did on the text
  codecHuman,       \* humanizeCedroMessage(codecOut)
  codecText,        \* formatCedroMessage(codecOut)
  codecAgain        \* parseCedroMessage(codecText)

codecVars ==
  <<codecIn, codecOut, codecOutRoot, codecHuman, codecText, codecAgain>>

VARIABLES
  \* ---- the metrics service (src/src/metrics.ts) ----
  mQueue,           \* number of messages waiting in incomingQueue
  mQueueShut,       \* Queue.shutdown(incomingQueue) has run
  mReceived,        \* messages the subscription callback has offered
  lifetime,         \* the counter messages_received
  mAhead,           \* messages counted that wait in the hand-off
  window,           \* items collected by groupedWithin in the current window
  measured,         \* processing time, in ms, of the items of the window
  rates,            \* the accumulator of Stream.mapAccum: the rates retained
  windowLog,        \* the windows groupedWithin has emitted, with their metrics
  idleIntervals,    \* intervals that elapsed while the window was empty
  mMain,            \* the program fiber: "running" | "shuttingDown" | "exited"
  mStream           \* the forked stream: "running" | "ended" | "interrupted"

metricsVars ==
  <<mQueue, mQueueShut, mReceived, lifetime, mAhead, window, measured, rates,
    windowLog, idleIntervals, mMain, mStream>>

VARIABLES
  \* ---- makeTcpClient (src/unnamed/part_003) ----
  tcSock,           \* the net.Socket: "connecting" | "connected" | "closed"
  tcSockError,      \* the socket has emitted 'error'
  tcResume,         \* what acquireSocket was resumed with, "pending" before
  tcFirst,          \* the first event of the connect phase, "none" before
  tcDataQueue,      \* dataQueue: the chunks offered and not yet taken
  tcSignalQueue,    \* signalQueue: the exits offered and not yet taken
  tcChunks,         \* number of chunks the socket has delivered
  tcReceive,        \* receive$: "running" | "failed" | "ended"
  tcBuffer,         \* currentBuffer
  tcNewlineIndex,   \* newlineIndex of the framing step that is running
  tcMessages,       \* messages of the framing step that is running
  tcLoop,           \* "idle" | "looping": the while loop of the framing step
  tcIter,           \* iterations of the while loop so far
  tcConsumed,       \* all bytes the framing step has been given
  tcOut             \* the lines receive$ has emitted

clientVars ==
  <<tcSock, tcSockError, tcResume, tcFirst, tcDataQueue, tcSignalQueue,
    tcChunks, tcReceive, tcBuffer, tcNewlineIndex, tcMessages, tcLoop, tcIter,
    tcConsumed, tcOut>>

VARIABLES
  \* ---- the max tracker (src/unnamed/part_008) ----
  stateRef,         \* Ref stateRef: the periods and their maxima
  maxLog            \* the records published on 'max', with the message's field 2

trackerVars == <<stateRef, maxLog>>

pureVars == <<frameVars, handlerVars, codecVars>>

vars ==
  <<tcpVars, srvVars, wssVars, cedroVars, pureVars, metricsVars, clientVars,
    trackerVars>>

\* the variables of the other components, which a step of one component
\* leaves alone
nonTcpVars == <<srvVars, wssVars, cedroVars, pureVars, metricsVars,
    clientVars, trackerVars>>
nonSrvVars == <<tcpVars, wssVars, cedroVars, pureVars, metricsVars,
    clientVars, trackerVars>>
nonWssVars == <<tcpVars, srvVars, cedroVars, pureVars, metricsVars,
    clientVars, trackerVars>>
nonCedroVars == <<tcpVars, srvVars, wssVars, pureVars, metricsVars,
    clientVars, trackerVars>>
nonFrameVars == <<tcpVars, srvVars, wssVars, cedroVars, handlerVars, codecVars, metricsVars,
    clientVars, trackerVars>>
nonHandlerVars == <<tcpVars, srvVars, wssVars, cedroVars, frameVars, codecVars, metricsVars,
    clientVars, trackerVars>>
nonClientVars ==
  <<tcpVars, srvVars, wssVars, cedroVars, pureVars, metricsVars,
    trackerVars>>
nonMetricsVars == <<tcpVars, srvVars, wssVars, cedroVars, pureVars,
    clientVars, trackerVars>>
nonTrackerVars == <<tcpVars, srvVars, wssVars, cedroVars, pureVars,
    metricsVars, clientVars>>
nonCodecVars == <<tcpVars, srvVars, wssVars, cedroVars, frameVars, handlerVars, metricsVars,
    clientVars, trackerVars>>

None == 0

\* the timer of Effect.timeout is not armed (any more)
TimerOff == -1

(***************************************************************************)
(* TcpStreamLive                                                           *)
(***************************************************************************)
\* the four places that run performShutdown
Triggers == {"close", "socketClose", "socketError", "streamEnd"}

\* the socket callbacks exist as soon as Bun.connect is called, the `close`
\* effect and the stream only once the layer has been built
SocketTriggers == {"socketClose", "socketError"}

WriteOutcomes == {"full", "partial", "throw"}

TeardownSteps == {"end", "interrupt", "incoming", "outgoing"}

InitTcp ==
  /\ connState = "connecting"
  /\ isClosing = FALSE
  /\ writeErrorCount = 0
  /\ outgoingQueue = <<>>
  /\ writerFiber = "none"
  /\ writerData = None
  /\ shutPc = [t \in Triggers |-> "idle"]
  /\ teardown = [s \in TeardownSteps |-> 0]
  /\ sendCount = 0
  /\ writeLog = <<>>
  /\ connectTimer = 0
  /\ incomingQueue = <<>>
  /\ dataCount = 0
  /\ streamLog = <<>>
  /\ queuedAtClose = <<>>
  /\ atCleanup = [sends |-> 0, writes |-> 0, data |-> 0, emitted |-> 0]

\* Queue.isShutdown of the two queues
OutgoingShutdown == teardown["outgoing"] > 0
IncomingShutdown == teardown["incoming"] > 0

WriterRunning == writerFiber \in {"take", "write"}

\* Effect.timeout(Duration.millis(3000)): the duration has elapsed
TimedOutNever(elapsed) == FALSE
TimedOut(elapsed) == elapsed >= ConnectTimeoutSeconds

\* one second passes while Bun.connect is pending (time is followed up to
\* the deadline of the timeout)
Tick ==
  /\ connState = "connecting"
  /\ connectTimer # TimerOff
  /\ connectTimer < ConnectTimeoutSeconds
  /\ connectTimer' = connectTimer + 1
  /\ UNCHANGED <<connState, isClosing, writeErrorCount, outgoingQueue,
                 writerFiber, writerData, shutPc, teardown, sendCount,
                 writeLog, tcpInVars, tcpMarks>>
  /\ UNCHANGED nonTcpVars

\* Bun.connect resolved within the timeout: bunSocket is bound and the writer
\* fiber is forked (no suspension point lies between the two)
ConnectOk ==
  /\ connState = "connecting"
  /\ ~TimedOut(connectTimer)
  /\ connState' = "open"
  /\ writerFiber' = "take"
  /\ connectTimer' = TimerOff
  /\ UNCHANGED <<isClosing, writeErrorCount, outgoingQueue, writerData,
                 shutPc, teardown, sendCount, writeLog, tcpInVars, tcpMarks>>
  /\ UNCHANGED nonTcpVars

\* Bun.connect rejected within the timeout: Effect.tryPromise fails and the
\* layer is not built
ConnectFail ==
  /\ connState = "connecting"
  /\ ~TimedOut(connectTimer)
  /\ connState' = "failed"
  /\ connectTimer' = TimerOff
  /\ UNCHANGED <<isClosing, writeErrorCount, outgoingQueue, writerFiber,
                 writerData, shutPc, teardown, sendCount, writeLog,
                 tcpInVars, tcpMarks>>
  /\ UNCHANGED nonTcpVars

\* Effect.timeout fired while Bun.connect was still pending: the pending
\* effect is interrupted and the generator of the layer fails at this yield*,
\* so neither the fork of the writer nor the return of the handle is reached
ConnectTimeout ==
  /\ connState = "connecting"
  /\ TimedOut(connectTimer)
  /\ connState' = "timeout"
  /\ connectTimer' = TimerOff
  /\ UNCHANGED <<isClosing, writeErrorCount, outgoingQueue, writerFiber,
                 writerData, shutPc, teardown, sendCount, writeLog,
                 tcpInVars, tcpMarks>>
  /\ UNCHANGED nonTcpVars

\* `if (alreadyClosing) return` on the value Ref.getAndSet handed back
AlreadyClosingMissing(old) == FALSE
AlreadyClosing(old) == old

\* performShutdown up to its first suspension (Effect.sleep): the guard, the
\* log line and bunSocket.end().  bunSocket is a const bound after Bun.connect
\* resolved; reading it earlier throws and the run dies with the flag set.
PerformShutdownStart(t) ==
  /\ shutPc[t] = "idle"
  /\ IF t \in SocketTriggers
       THEN connState \in {"connecting", "open"}
       ELSE connState = "open"
  /\ isClosing' = TRUE
  /\ IF AlreadyClosing(isClosing)
       THEN /\ shutPc' = [shutPc EXCEPT ![t] = "noop"]
            /\ UNCHANGED <<teardown, connState, connectTimer, queuedAtClose>>
       ELSE IF connState # "open"
         THEN /\ shutPc' = [shutPc EXCEPT ![t] = "died"]
              /\ connState' = "failed"
              /\ connectTimer' = TimerOff
              /\ UNCHANGED <<teardown, queuedAtClose>>
         ELSE /\ shutPc' = [shutPc EXCEPT ![t] = "sleep"]
              /\ teardown' = [teardown EXCEPT !["end"] = @ + 1]
              /\ queuedAtClose' = outgoingQueue
              /\ UNCHANGED <<connState, connectTimer>>
  /\ UNCHANGED <<writeErrorCount, outgoingQueue, writerFiber, writerData,
                 sendCount, writeLog, tcpInVars, atCleanup>>
  /\ UNCHANGED nonTcpVars

\* Fiber.interrupt on the writer: a running fiber ends, a fiber that has
\* already failed is left as it is
InterruptWriterSkipped(fiber) == fiber
InterruptWriter(fiber) ==
  IF fiber \in {"take", "write"} THEN "interrupted" ELSE fiber

\* after the 10 ms sleep: Fiber.interrupt(writerFiber)
PerformShutdownInterrupt(t) ==
  /\ shutPc[t] = "sleep"
  /\ shutPc' = [shutPc EXCEPT ![t] = "queues"]
  /\ teardown' = [teardown EXCEPT !["interrupt"] = @ + 1]
  /\ writerFiber' = InterruptWriter(writerFiber)
  /\ writerData' = IF InterruptWriter(writerFiber) = "write"
                     THEN writerData ELSE None
  /\ UNCHANGED <<connState, isClosing, writeErrorCount, outgoingQueue,
                 sendCount, writeLog, connectTimer, tcpInVars, tcpMarks>>
  /\ UNCHANGED nonTcpVars

\* Effect.all([Queue.shutdown(incomingQueue), Queue.shutdown(outgoingQueue)])
PerformShutdownQueues(t) ==
  /\ shutPc[t] = "queues"
  /\ shutPc' = [shutPc EXCEPT ![t] = "done"]
  /\ teardown' = [teardown EXCEPT !["incoming"] = @ + 1,
                                  !["outgoing"] = @ + 1]
  /\ atCleanup' = [sends |-> sendCount, writes |-> Len(writeLog),
                   data |-> dataCount, emitted |-> Len(streamLog)]
  /\ UNCHANGED <<connState, isClosing, writeErrorCount, outgoingQueue,
                 writerFiber, writerData, sendCount, writeLog, connectTimer,
                 tcpInVars, queuedAtClose>>
  /\ UNCHANGED nonTcpVars

\* send / sendText: Queue.offer(outgoingQueue, data); an offer to a queue that
\* has been shut down is interrupted and enqueues nothing (the items a queue
\* holds when it is shut down stay in it and are never taken)
Send ==
  /\ connState = "open"
  /\ sendCount < MaxSend
  /\ sendCount' = sendCount + 1
  /\ outgoingQueue' = IF OutgoingShutdown THEN outgoingQueue
                      ELSE Append(outgoingQueue, sendCount + 1)
  /\ UNCHANGED <<connState, isClosing, writeErrorCount, writerFiber,
                 writerData, shutPc, teardown, writeLog, connectTimer,
                 tcpInVars, tcpMarks>>
  /\ UNCHANGED nonTcpVars

\* what Queue.take hands out and what it leaves: the oldest item is taken
TakeNewest(queue) ==
  [item |-> queue[Len(queue)], rest |-> SubSeq(queue, 1, Len(queue) - 1)]
TakeFrom(queue) == [item |-> Head(queue), rest |-> Tail(queue)]

\* Queue.take(outgoingQueue); a take from a queue that has been shut down
\* is interrupted and hands out nothing
WriterTake ==
  /\ writerFiber = "take"
  /\ outgoingQueue # <<>>
  /\ ~OutgoingShutdown
  /\ writerData' = TakeFrom(outgoingQueue).item
  /\ outgoingQueue' = TakeFrom(outgoingQueue).rest
  /\ writerFiber' = "write"
  /\ UNCHANGED <<connState, isClosing, writeErrorCount, shutPc, teardown,
                 sendCount, writeLog, connectTimer, tcpInVars, tcpMarks>>
  /\ UNCHANGED nonTcpVars

\* the value the `catch` callback returns for the error count it just read
CatchResult(currentErrors) ==
  IF currentErrors > WriteErrorBudget THEN "failEffect" ELSE "retryEffect"

\* Effect.try({ try, catch }): succeeds with the value of `try`; when `try`
\* throws it FAILS with whatever `catch` returned as the error value.  The
\* effect `catch` builds here is that error value; it is never run.
EffectTry(threw, caught) ==
  IF threw THEN [exit |-> "fail", error |-> caught]
           ELSE [exit |-> "succeed", error |-> "none"]

\* the body of Effect.try: bunSocket.write(data); a short count throws
\* 'Partial write'
WriterWrite(outcome) ==
  /\ writerFiber = "write"
  /\ writeLog' = Append(writeLog, <<writerData, outcome>>)
  /\ LET threw == outcome # "full"
         currentErrors == writeErrorCount + 1
         result == EffectTry(threw, CatchResult(currentErrors))
     IN /\ writeErrorCount' = IF threw THEN currentErrors ELSE 0
        /\ writerFiber' = IF result.exit = "succeed" THEN "take" ELSE "failed"
  /\ writerData' = None
  /\ UNCHANGED <<connState, isClosing, outgoingQueue, shutPc, teardown,
                 sendCount, connectTimer, tcpInVars, tcpMarks>>
  /\ UNCHANGED nonTcpVars

\* the socket's data callback: Queue.unsafeOffer(incomingQueue, data); the
\* peer can go on sending after bunSocket.end() until the socket is closed,
\* and an offer to a queue that has been shut down enqueues nothing
SocketData ==
  /\ connState = "open"
  /\ shutPc["socketClose"] = "idle"
  /\ dataCount < MaxData
  /\ dataCount' = dataCount + 1
  /\ incomingQueue' = IF IncomingShutdown THEN incomingQueue
                      ELSE Append(incomingQueue, dataCount + 1)
  /\ UNCHANGED streamLog
  /\ UNCHANGED <<connState, isClosing, writeErrorCount, outgoingQueue,
                 writerFiber, writerData, shutPc, teardown, sendCount,
                 writeLog, connectTimer, tcpMarks>>
  /\ UNCHANGED nonTcpVars

\* the consumer of `stream` (Stream.fromQueue(incomingQueue)) pulls a chunk;
\* after the shutdown of the queue the take is interrupted and the stream
\* ends, and Stream.ensuring(close) has run once the stream has ended
StreamPull ==
  /\ connState = "open"
  /\ shutPc["streamEnd"] = "idle"
  /\ ~IncomingShutdown
  /\ incomingQueue # <<>>
  /\ streamLog' = Append(streamLog, Head(incomingQueue))
  /\ incomingQueue' = Tail(incomingQueue)
  /\ UNCHANGED dataCount
  /\ UNCHANGED <<connState, isClosing, writeErrorCount, outgoingQueue,
                 writerFiber, writerData, shutPc, teardown, sendCount,
                 writeLog, connectTimer, tcpMarks>>
  /\ UNCHANGED nonTcpVars

(***************************************************************************)
(* Properties of TcpStreamLive                                             *)
(***************************************************************************)
\* the performShutdown runs that passed the guard
Winners == {t \in Triggers : shutPc[t] \in {"sleep", "queues", "done", "died"}}

\* C1: whatever the interleaving of the cleanup triggers (close, the socket
\* close and error callbacks, the end of the stream), at most one run of
\* performShutdown passes the guard, no step of the teardown (end the socket,
\* interrupt the writer, shut down the incoming and the outgoing queue) is
\* executed twice, the steps happen in the order of the code, and once the
\* run that passed the guard has finished every step has been executed
\* exactly once; every other trigger is a no-op.
C1_TeardownExactlyOnce ==
  /\ Cardinality(Winners) <= 1
  /\ \A s \in TeardownSteps : teardown[s] <= 1
  /\ teardown["incoming"] = teardown["outgoing"]
  /\ teardown["outgoing"] <= teardown["interrupt"]
  /\ teardown["interrupt"] <= teardown["end"]
  /\ (\E t \in Triggers : shutPc[t] = "done")
       => \A s \in TeardownSteps : teardown[s] = 1
  /\ \A t \in Triggers : shutPc[t] # "idle" => isClosing

\* a teardown that ran to its end while two other triggers were no-ops
C1_Witness ==
  /\ \E t \in Triggers : shutPc[t] = "done"
  /\ Cardinality({t \in Triggers : shutPc[t] = "noop"}) >= 2
  /\ \A s \in TeardownSteps : teardown[s] = 1

\* message m is still on its way to the socket: taken by the writer or in the
\* open outgoing queue
Pending(m) ==
  \/ writerData = m
  \/ /\ ~OutgoingShutdown
     /\ \E k \in DOMAIN outgoingQueue : outgoingQueue[k] = m

\* C5: a message whose write was rejected with a short count is not dropped:
\* unless the connection is being closed it is written by a later attempt or
\* is still held for the retry, and the writer task is still running so that
\* it goes on to the messages that follow.
C5_BackpressureRetried ==
  \A i \in DOMAIN writeLog :
    (writeLog[i][2] = "partial" /\ ~isClosing) =>
      /\ \/ \E j \in DOMAIN writeLog :
              j > i /\ writeLog[j] = <<writeLog[i][1], "full">>
         \/ Pending(writeLog[i][1])
      /\ WriterRunning

\* C6: the writer task fails with the fatal write error exactly when the
\* consecutive-failure counter exceeds the budget of 3; with 3 or fewer
\* consecutive failures it has not stopped.
C6_FatalOnlyOverBudget ==
  (writerFiber = "failed") <=> (writeErrorCount > WriteErrorBudget)

\* C7: while at most 2 consecutive writes have failed the writer task is
\* still running and the Connection is Open (closing flag false, both queues
\* open), so that a successful write can follow, and after a successful
\* write the consecutive-failure counter is 0.
C7_OpenAfterTwoFailuresAndSuccess ==
  (connState = "open" /\ ~isClosing /\ writeErrorCount <= 2) =>
    /\ WriterRunning
    /\ ~IncomingShutdown /\ ~OutgoingShutdown
    /\ (writeLog # <<>> /\ writeLog[Len(writeLog)][2] = "full")
         => writeErrorCount = 0

NextTcp ==
  \/ Tick
  \/ ConnectOk
  \/ ConnectFail
  \/ ConnectTimeout
  \/ SocketData
  \/ StreamPull
  \/ \E t \in Triggers : PerformShutdownStart(t)
  \/ \E t \in Triggers : PerformShutdownInterrupt(t)
  \/ \E t \in Triggers : PerformShutdownQueues(t)
  \/ Send
  \/ WriterTake
  \/ \E o \in WriteOutcomes : WriterWrite(o)


(***************************************************************************)
(* createTcpServer: the WebSocket fan-out server                           *)
(***************************************************************************)
WS == 1..NumWs
IDs == 1..NumIds
Closers == 1..NumClosers
NoWs == 0
NoId == 0

\* what one ws.send call can do: the frame is sent, the transport drops it
\* (return value 0), or the call throws
PushOutcomes == {"sent", "dropped", "throw"}

ServerSteps == {"stop", "interrupt", "queue"}

InitServer ==
  /\ wsState = [w \in WS |-> "new"]
  /\ wsId = [w \in WS |-> NoId]
  /\ clients = [i \in IDs |-> NoWs]
  /\ clientFiber = [w \in WS |-> "none"]
  /\ wsWriter = [w \in WS |-> "none"]
  /\ wsData = [w \in WS |-> None]
  /\ wsOutgoingQueue = [w \in WS |-> <<>>]
  /\ wsQueuesShutdown = [w \in WS |-> FALSE]
  /\ offered = [w \in WS |-> <<>>]
  /\ pushLog = [w \in WS |-> <<>>]
  /\ clientsQueue = <<>>
  /\ closeAlreadyCalled = FALSE
  /\ closePc = [c \in Closers |-> "idle"]
  /\ closeTargets = [c \in Closers |-> {}]
  /\ srvTeardown = [s \in ServerSteps |-> 0]

ClientsQueueShutdown == srvTeardown["queue"] > 0
Listening == srvTeardown["stop"] = 0

\* Queue.offer / Queue.unsafeOffer on an unbounded queue
QueueOfferFront(q, m) == <<m>> \o q
QueueOffer(q, m) == Append(q, m)

\* Fiber.interrupt(fiber) on the client fiber of connection v: a fiber parked
\* in Effect.never starts closing its scope, any other fiber is left as it is
InterruptFiber(fibers, v) ==
  IF fibers[v] = "running" THEN [fibers EXCEPT ![v] = "closing"] ELSE fibers

\* The ids are opaque random strings and only their equality matters: a newly
\* drawn id either equals an id drawn before or is a value not seen so far,
\* for which the model takes the smallest one.
UsedIds == {wsId[w] : w \in WS} \ {NoId}
DrawableIds ==
  UsedIds \cup {i \in IDs : i \notin UsedIds /\ \A j \in IDs \ UsedIds : i <= j}

\* fetch + websocketHandler.open (the connections are numbered in the order
\* in which they are opened): the upgrade draws the id, open builds the
\* two queues, forks the writer, parks the client fiber in Effect.never,
\* stores the fiber under the id and offers the client to the clients queue
Open(w, id) ==
  /\ wsState[w] = "new"
  /\ \A v \in WS : v < w => wsState[v] # "new"
  /\ id \in DrawableIds
  /\ Listening
  /\ wsState' = [wsState EXCEPT ![w] = "open"]
  /\ wsId' = [wsId EXCEPT ![w] = id]
  /\ clientFiber' = [clientFiber EXCEPT ![w] = "running"]
  /\ wsWriter' = [wsWriter EXCEPT ![w] = "take"]
  /\ clients' = [clients EXCEPT ![id] = w]
  /\ clientsQueue' = IF ClientsQueueShutdown THEN clientsQueue
                     ELSE QueueOffer(clientsQueue, w)
  /\ UNCHANGED <<wsData, wsOutgoingQueue, wsQueuesShutdown, offered, pushLog,
                 closeAlreadyCalled, closePc, closeTargets, srvTeardown>>
  /\ UNCHANGED nonSrvVars

\* websocketHandler.close: interrupt the fiber stored under ws.data.id
CloseCallback(w) ==
  /\ wsState[w] = "open"
  /\ wsState' = [wsState EXCEPT ![w] = "closed"]
  /\ clientFiber' = IF clients[wsId[w]] # NoWs
                      THEN InterruptFiber(clientFiber, clients[wsId[w]])
                      ELSE clientFiber
  /\ UNCHANGED <<wsId, clients, wsWriter, wsData, wsOutgoingQueue,
                 wsQueuesShutdown, offered, pushLog, clientsQueue,
                 closeAlreadyCalled, closePc, closeTargets, srvTeardown>>
  /\ UNCHANGED nonSrvVars

\* the interrupted client fiber closes the scope of Effect.scoped: the
\* forkScoped writer is interrupted
FiberScopeClose(v) ==
  /\ clientFiber[v] = "closing"
  /\ clientFiber' = [clientFiber EXCEPT ![v] = "cleanup"]
  /\ wsWriter' = [wsWriter EXCEPT ![v] =
                    IF @ \in {"take", "send"} THEN "interrupted" ELSE @]
  /\ wsData' = [wsData EXCEPT ![v] = None]
  /\ UNCHANGED <<wsState, wsId, clients, wsOutgoingQueue, wsQueuesShutdown,
                 offered, pushLog, clientsQueue, closeAlreadyCalled, closePc,
                 closeTargets, srvTeardown>>
  /\ UNCHANGED nonSrvVars

\* Effect.onInterrupt: clients.delete(clientId) and the shutdown of the two
\* queues of this connection
FiberCleanup(v) ==
  /\ clientFiber[v] = "cleanup"
  /\ clientFiber' = [clientFiber EXCEPT ![v] = "done"]
  /\ clients' = [clients EXCEPT ![wsId[v]] = NoWs]
  /\ wsQueuesShutdown' = [wsQueuesShutdown EXCEPT ![v] = TRUE]
  /\ UNCHANGED <<wsState, wsId, wsWriter, wsData, wsOutgoingQueue, offered,
                 pushLog, clientsQueue, closeAlreadyCalled, closePc,
                 closeTargets, srvTeardown>>
  /\ UNCHANGED nonSrvVars

\* the number of messages offered so far to the connections in S; the
\* messages are numbered in the order of the offers
RECURSIVE OfferedCount(_)
OfferedCount(S) ==
  IF S = {} THEN 0
  ELSE LET v == CHOOSE x \in S : TRUE
       IN Len(offered[v]) + OfferedCount(S \ {v})

\* TcpClient.send / sendText: Queue.offer(ws.data.outgoingQueue, data).  The
\* queue is unbounded, the offer never waits; an offer to a queue that has
\* been shut down is interrupted and enqueues nothing (not a step here).
SubSend(w) ==
  /\ wsState[w] # "new"
  /\ ~wsQueuesShutdown[w]
  /\ OfferedCount(WS) < MaxMsgs
  /\ wsOutgoingQueue' = [wsOutgoingQueue EXCEPT
                           ![w] = QueueOffer(@, OfferedCount(WS) + 1)]
  /\ offered' = [offered EXCEPT ![w] = Append(@, OfferedCount(WS) + 1)]
  /\ UNCHANGED <<wsState, wsId, clients, clientFiber, wsWriter, wsData,
                 wsQueuesShutdown, pushLog, clientsQueue, closeAlreadyCalled,
                 closePc, closeTargets, srvTeardown>>
  /\ UNCHANGED nonSrvVars

\* Queue.take resumes as soon as the connection's own queue holds an item
CanTakeInTurn(w) ==
  /\ wsOutgoingQueue[w] # <<>>
  /\ \A v \in WS : v < w => wsOutgoingQueue[v] = <<>>
CanTake(w) == wsOutgoingQueue[w] # <<>>

\* the writer of connection w: Queue.take(outgoingQueue)
SubWriterTake(w) ==
  /\ wsWriter[w] = "take"
  /\ CanTake(w)
  /\ wsData' = [wsData EXCEPT ![w] = Head(wsOutgoingQueue[w])]
  /\ wsOutgoingQueue' = [wsOutgoingQueue EXCEPT ![w] = Tail(@)]
  /\ wsWriter' = [wsWriter EXCEPT ![w] = "send"]
  /\ UNCHANGED <<wsState, wsId, clients, clientFiber, wsQueuesShutdown,
                 offered, pushLog, clientsQueue, closeAlreadyCalled, closePc,
                 closeTargets, srvTeardown>>
  /\ UNCHANGED nonSrvVars

\* Effect.sync(() => ws.send(data)): the return value is ignored; a throw
\* inside Effect.sync is a defect, which ends the iterate loop of the writer
AfterPush(outcome) == IF outcome = "throw" THEN "died" ELSE "take"

\* the writer of connection w: Effect.tap(... ws.send(data))
SubWriterSend(w, outcome) ==
  /\ wsWriter[w] = "send"
  /\ pushLog' = [pushLog EXCEPT ![w] = Append(@, wsData[w])]
  /\ wsData' = [wsData EXCEPT ![w] = None]
  /\ wsWriter' = [wsWriter EXCEPT ![w] = AfterPush(outcome)]
  /\ UNCHANGED <<wsState, wsId, clients, clientFiber, wsOutgoingQueue,
                 wsQueuesShutdown, offered, clientsQueue, closeAlreadyCalled,
                 closePc, closeTargets, srvTeardown>>
  /\ UNCHANGED nonSrvVars

\* the condition of Effect.if(closeAlreadyCalled, ...): the Ref is read
CloseGuard(flag) == flag

\* close up to its first suspension: Effect.if reads closeAlreadyCalled; when
\* it is false, bunServer.stop() and Effect.sleep(200 ms)
ServerCloseStart(c) ==
  /\ closePc[c] = "idle"
  /\ IF CloseGuard(closeAlreadyCalled)
       THEN /\ closePc' = [closePc EXCEPT ![c] = "noop"]
            /\ UNCHANGED srvTeardown
       ELSE /\ closePc' = [closePc EXCEPT ![c] = "sleep"]
            /\ srvTeardown' = [srvTeardown EXCEPT !["stop"] = @ + 1]
  /\ UNCHANGED <<wsState, wsId, clients, clientFiber, wsWriter, wsData,
                 wsOutgoingQueue, wsQueuesShutdown, offered, pushLog,
                 clientsQueue, closeAlreadyCalled, closeTargets>>
  /\ UNCHANGED nonSrvVars

\* the fibers in clients.values()
RegisteredFibers == {clients[i] : i \in IDs} \ {NoWs}

RECURSIVE InterruptAll(_, _)
InterruptAll(fibers, S) ==
  IF S = {} THEN fibers
  ELSE LET v == CHOOSE x \in S : TRUE
       IN InterruptAll(InterruptFiber(fibers, v), S \ {v})

\* after the sleep: Effect.forEach(Array.from(clients.values()),
\* Fiber.interrupt, { concurrency: 'unbounded' })
ServerCloseInterrupt(c) ==
  /\ closePc[c] = "sleep"
  /\ closePc' = [closePc EXCEPT ![c] = "await"]
  /\ closeTargets' = [closeTargets EXCEPT ![c] = RegisteredFibers]
  /\ clientFiber' = InterruptAll(clientFiber, RegisteredFibers)
  /\ srvTeardown' = [srvTeardown EXCEPT !["interrupt"] = @ + 1]
  /\ UNCHANGED <<wsState, wsId, clients, wsWriter, wsData, wsOutgoingQueue,
                 wsQueuesShutdown, offered, pushLog, clientsQueue,
                 closeAlreadyCalled>>
  /\ UNCHANGED nonSrvVars

\* every Fiber.interrupt has returned (the fiber has ended):
\* Queue.shutdown(clientsQueue) and Ref.set(closeAlreadyCalled, true)
ServerCloseFinish(c) ==
  /\ closePc[c] = "await"
  /\ \A v \in closeTargets[c] : clientFiber[v] = "done"
  /\ closePc' = [closePc EXCEPT ![c] = "done"]
  /\ srvTeardown' = [srvTeardown EXCEPT !["queue"] = @ + 1]
  /\ closeAlreadyCalled' = TRUE
  /\ UNCHANGED <<wsState, wsId, clients, clientFiber, wsWriter, wsData,
                 wsOutgoingQueue, wsQueuesShutdown, offered, pushLog,
                 clientsQueue, closeTargets>>
  /\ UNCHANGED nonSrvVars

\* the subscribers alone: connections, their fibers, queues and writers
NextFanout ==
  \/ \E w \in WS, id \in IDs : Open(w, id)
  \/ \E w \in WS : CloseCallback(w)
  \/ \E w \in WS : FiberScopeClose(w)
  \/ \E w \in WS : FiberCleanup(w)
  \/ \E w \in WS : SubSend(w)
  \/ \E w \in WS : SubWriterTake(w)
  \/ \E w \in WS, o \in PushOutcomes : SubWriterSend(w, o)

\* the server with its close effect
NextServer ==
  \/ \E w \in WS, id \in IDs : Open(w, id)
  \/ \E w \in WS : CloseCallback(w)
  \/ \E w \in WS : FiberScopeClose(w)
  \/ \E w \in WS : FiberCleanup(w)
  \/ \E c \in Closers : ServerCloseStart(c)
  \/ \E c \in Closers : ServerCloseInterrupt(c)
  \/ \E c \in Closers : ServerCloseFinish(c)

(***************************************************************************)
(* The Elysia endpoint /cedro and broadcastToClients                       *)
(***************************************************************************)
InitWss ==
  /\ connectedClients = <<>>
  /\ wssReceived = [c \in WS |-> <<>>]
  /\ broadcasts = 0
  /\ lastBroadcast = [msg |-> None, targets |-> {}, failed |-> NoWs]

Range(q) == {q[k] : k \in DOMAIN q}

\* Set.delete on the insertion-ordered set
RECURSIVE Without(_, _)
Without(q, c) ==
  IF q = <<>> THEN <<>>
  ELSE IF Head(q) = c THEN Without(Tail(q), c)
  ELSE <<Head(q)>> \o Without(Tail(q), c)

\* ws open(ws): connectedClients.add(ws)
WssOpen(c) ==
  /\ c \notin Range(connectedClients)
  /\ connectedClients' = Append(connectedClients, c)
  /\ UNCHANGED <<wssReceived, broadcasts, lastBroadcast>>
  /\ UNCHANGED nonWssVars

\* ws close(ws): connectedClients.delete(ws)
WssClose(c) ==
  /\ c \in Range(connectedClients)
  /\ connectedClients' = Without(connectedClients, c)
  /\ UNCHANGED <<wssReceived, broadcasts, lastBroadcast>>
  /\ UNCHANGED nonWssVars

\* for (const client of connectedClients) client.send(message): the loop has
\* no try/catch, so the first send that throws ends it; the clients after
\* that one in the iteration order are not served
RECURSIVE SendLoop(_, _, _, _)
SendLoop(q, received, m, bad) ==
  IF q = <<>> \/ Head(q) = bad THEN received
  ELSE SendLoop(Tail(q), [received EXCEPT ![Head(q)] = Append(@, m)], m, bad)

\* broadcastToClients(message); `bad` is the client whose send throws, if any
BroadcastToClients(bad) ==
  /\ broadcasts < MaxBroadcasts
  /\ bad \in Range(connectedClients) \cup {NoWs}
  /\ broadcasts' = broadcasts + 1
  /\ wssReceived' = SendLoop(connectedClients, wssReceived, broadcasts + 1, bad)
  /\ lastBroadcast' = [msg |-> broadcasts + 1,
                       targets |-> Range(connectedClients),
                       failed |-> bad]
  /\ UNCHANGED connectedClients
  /\ UNCHANGED nonWssVars

NextWss ==
  \/ \E c \in WS : WssOpen(c)
  \/ \E c \in WS : WssClose(c)
  \/ \E bad \in WS \cup {NoWs} : BroadcastToClients(bad)

(***************************************************************************)
(* CedroStreamLive: the connection of the minimal example                  *)
(***************************************************************************)
NoItem == "none"

DataItem(n) == [tag |-> "data", value |-> n]

\* the item the 'error' and the 'close' handler offer
ErrorItem == [tag |-> "error", value |-> 0]

\* the layer is built as soon as net.createConnection has returned: the
\* socket is connecting, the handlers are registered, the writer is forked
InitCedro ==
  /\ cedroSocket = "connecting"
  /\ cedroIncoming = <<>>
  /\ cedroDataCount = 0
  /\ cedroStream = "running"
  /\ cedroStreamLog = <<>>
  /\ cedroOutgoing = <<>>
  /\ cedroWriter = "take"
  /\ cedroWriterData = NoItem
  /\ cedroWritten = <<>>
  /\ cedroSendCount = 0

CedroWriterRunning == cedroWriter \in {"take", "write"}

\* the three credentials the connect listener offers, in its order
Credentials == <<"magicToken", "username", "password">>

\* the connect listener of net.createConnection: the three credentials are
\* offered to the outgoing queue
CedroConnected ==
  /\ cedroSocket = "connecting"
  /\ cedroSocket' = "connected"
  /\ cedroOutgoing' = cedroOutgoing \o Credentials
  /\ UNCHANGED <<cedroIncoming, cedroDataCount, cedroStream, cedroStreamLog,
                 cedroWriter, cedroWriterData, cedroWritten, cedroSendCount>>
  /\ UNCHANGED nonCedroVars

\* socket.on('data')
CedroSocketData ==
  /\ cedroSocket = "connected"
  /\ cedroDataCount < MaxData
  /\ cedroDataCount' = cedroDataCount + 1
  /\ cedroIncoming' = Append(cedroIncoming, DataItem(cedroDataCount + 1))
  /\ UNCHANGED <<cedroSocket, cedroStream, cedroStreamLog, cedroOutgoing,
                 cedroWriter, cedroWriterData, cedroWritten, cedroSendCount>>
  /\ UNCHANGED nonCedroVars

\* socket.on('error'), fired while the socket is connecting ("refused") or
\* connected ("errored"): an error item is offered to the incoming queue and
\* nothing else is done (the call of performShutdown is commented out)
CedroSocketError ==
  /\ cedroSocket \in {"connecting", "connected"}
  /\ cedroSocket' = IF cedroSocket = "connected" THEN "errored" ELSE "refused"
  /\ cedroIncoming' = Append(cedroIncoming, ErrorItem)
  /\ UNCHANGED <<cedroDataCount, cedroStream, cedroStreamLog, cedroOutgoing,
                 cedroWriter, cedroWriterData, cedroWritten, cedroSendCount>>
  /\ UNCHANGED nonCedroVars

\* socket.on('close'): the same, with the message 'Connection closed'
CedroSocketClose ==
  /\ cedroSocket \in {"connected", "refused", "errored"}
  /\ cedroSocket' = "closed"
  /\ cedroIncoming' = Append(cedroIncoming, ErrorItem)
  /\ UNCHANGED <<cedroDataCount, cedroStream, cedroStreamLog, cedroOutgoing,
                 cedroWriter, cedroWriterData, cedroWritten, cedroSendCount>>
  /\ UNCHANGED nonCedroVars

\* the consumer of `stream` pulls an item: a data item is emitted,
\* Stream.fail(msg.error) ends the stream with the error
CedroStreamPull ==
  /\ cedroStream = "running"
  /\ cedroIncoming # <<>>
  /\ cedroIncoming' = Tail(cedroIncoming)
  /\ IF Head(cedroIncoming).tag = "data"
       THEN /\ cedroStreamLog' = Append(cedroStreamLog, Head(cedroIncoming).value)
            /\ UNCHANGED cedroStream
       ELSE /\ cedroStream' = "failed"
            /\ UNCHANGED cedroStreamLog
  /\ UNCHANGED <<cedroSocket, cedroDataCount, cedroOutgoing, cedroWriter,
                 cedroWriterData, cedroWritten, cedroSendCount>>
  /\ UNCHANGED nonCedroVars

\* send / sendText: Queue.offer(outgoingQueue, data); the queue is never
\* shut down, so every offer is accepted
CedroSend ==
  /\ cedroSendCount < MaxSend
  /\ cedroSendCount' = cedroSendCount + 1
  /\ cedroOutgoing' = Append(cedroOutgoing, "sent")
  /\ UNCHANGED <<cedroSocket, cedroIncoming, cedroDataCount, cedroStream,
                 cedroStreamLog, cedroWriter, cedroWriterData, cedroWritten>>
  /\ UNCHANGED nonCedroVars

\* the writer: Queue.take(outgoingQueue)
CedroWriterTake ==
  /\ cedroWriter = "take"
  /\ cedroOutgoing # <<>>
  /\ cedroWriterData' = Head(cedroOutgoing)
  /\ cedroOutgoing' = Tail(cedroOutgoing)
  /\ cedroWriter' = "write"
  /\ UNCHANGED <<cedroSocket, cedroIncoming, cedroDataCount, cedroStream,
                 cedroStreamLog, cedroWritten, cedroSendCount>>
  /\ UNCHANGED nonCedroVars

\* the writer: socket.write(data); when it returns false (or throws) the
\* Effect.try fails with a WritingError and the writer fiber ends
CedroWriterWrite(writtenOk) ==
  /\ cedroWriter = "write"
  /\ cedroWritten' = Append(cedroWritten, cedroWriterData)
  /\ cedroWriterData' = NoItem
  /\ cedroWriter' = IF writtenOk THEN "take" ELSE "failed"
  /\ UNCHANGED <<cedroSocket, cedroIncoming, cedroDataCount, cedroStream,
                 cedroStreamLog, cedroOutgoing, cedroSendCount>>
  /\ UNCHANGED nonCedroVars

NextCedro ==
  \/ CedroConnected
  \/ CedroSocketData
  \/ CedroSocketError
  \/ CedroSocketClose
  \/ CedroStreamPull
  \/ CedroSend
  \/ CedroWriterTake
  \/ \E ok \in BOOLEAN : CedroWriterWrite(ok)

\* C15: when the socket has reported an error while it was connected and
\* the inbound stream has terminated with that error, the cleanup has run:
\* the writer fiber is stopped, so that nothing is taken from the outgoing
\* queue or written to the socket any more.
C15_SocketErrorRunsCleanup ==
  (cedroSocket = "errored" /\ cedroStream = "failed") => ~CedroWriterRunning

\* C33: the first three messages written to the socket are the
\* authentication token, the username and the password, in that order, so
\* that every command a caller sends is written after all three.
C33_CredentialsFirst ==
  \A k \in 1..Len(cedroWritten) : k <= 3 => cedroWritten[k] = Credentials[k]

(***************************************************************************)
(* Texts: a JavaScript string is a sequence of one-character strings       *)
(***************************************************************************)
Last(q) == q[Len(q)]
Front(q) == SubSeq(q, 1, Len(q) - 1)

\* all sequences over S of length 0..n
SeqsUpTo(S, n) == UNION {[1..k -> S] : k \in 0..n}

\* String.prototype.startsWith / endsWith
StartsWith(text, prefix) ==
  Len(text) >= Len(prefix) /\ SubSeq(text, 1, Len(prefix)) = prefix
EndsWith(text, suffix) ==
  /\ Len(text) >= Len(suffix)
  /\ SubSeq(text, Len(text) - Len(suffix) + 1, Len(text)) = suffix

\* String.prototype.split(sep) for a separator of one or more characters:
\* the pieces between the occurrences of sep, found from left to right
RECURSIVE Split(_, _)
Split(text, sep) ==
  IF \E i \in 1..Len(text) : StartsWith(SubSeq(text, i, Len(text)), sep)
    THEN LET i == CHOOSE j \in 1..Len(text) :
                    /\ StartsWith(SubSeq(text, j, Len(text)), sep)
                    /\ \A k \in 1..(j - 1) :
                         ~StartsWith(SubSeq(text, k, Len(text)), sep)
         IN <<SubSeq(text, 1, i - 1)>>
              \o Split(SubSeq(text, i + Len(sep), Len(text)), sep)
    ELSE <<text>>

\* String.prototype.trim: the white space at both ends is removed
RECURSIVE TrimStart(_)
TrimStart(text) ==
  IF text # <<>> /\ Head(text) = " " THEN TrimStart(Tail(text)) ELSE text
RECURSIVE TrimEnd(_)
TrimEnd(text) ==
  IF text # <<>> /\ Last(text) = " " THEN TrimEnd(Front(text)) ELSE text
Trim(text) == TrimEnd(TrimStart(text))

(***************************************************************************)
(* parseCedroMessage, humanizeCedroMessage and formatCedroMessage          *)
(***************************************************************************)
\* the characters of the texts handed to the parser: a letter that starts a
\* record, the field separator, the terminator, a digit and another letter
CodecChars == {"T", ":", "!", "2", "x"}

Digits == {"0", "1", "2", "3", "4", "5", "6", "7", "8", "9"}

DigitValue(c) ==
  CASE c = "0" -> 0 [] c = "1" -> 1 [] c = "2" -> 2 [] c = "3" -> 3
    [] c = "4" -> 4 [] c = "5" -> 5 [] c = "6" -> 6 [] c = "7" -> 7
    [] c = "8" -> 8 [] c = "9" -> 9

\* the value of a string of decimal digits
RECURSIVE DecimalValue(_)
DecimalValue(text) ==
  IF text = <<>> THEN 0
  ELSE 10 * DecimalValue(Front(text)) + DigitValue(Last(text))

\* the key under which fields[NaN] is stored
NaNKey == -1

\* the longest prefix of text made of digits
RECURSIVE DigitPrefix(_)
DigitPrefix(text) ==
  IF text # <<>> /\ Head(text) \in Digits
    THEN <<Head(text)>> \o DigitPrefix(Tail(text))
    ELSE <<>>

\* Number.parseInt(text, 10) for a text without sign and white space: the
\* value of the leading digits, NaN when there is none
ParseInt(text) ==
  IF DigitPrefix(text) = <<>> THEN NaNKey ELSE DecimalValue(DigitPrefix(text))

\* a value of the field map that is a string
TextValue(text) == [num |-> FALSE, n |-> 0, text |-> text]

\* !Number.isNaN(Number(rawValue)) ? Number(rawValue) : rawValue, for a text
\* without sign, point, exponent and white space (Number('') is 0)
FieldValue(rawValue) ==
  IF \A k \in DOMAIN rawValue : rawValue[k] \in Digits
    THEN [num |-> TRUE, n |-> DecimalValue(rawValue), text |-> <<>>]
    ELSE TextValue(rawValue)

\* fields[key] = value
SetField(fields, key, value) ==
  [k \in DOMAIN fields \cup {key} |-> IF k = key THEN value ELSE fields[k]]

\* the loop `while (i < parts.length)` over the field:value pairs
RECURSIVE ParseFields(_, _, _)
ParseFields(parts, i, fields) ==
  IF i > Len(parts) THEN fields
  ELSE LET fieldPart == parts[i]
           hasValue == i + 1 <= Len(parts)
       IN IF fieldPart # <<>> /\ hasValue /\ parts[i + 1] # <<>>
            THEN ParseFields(parts, i + 2,
                   SetField(fields, ParseInt(fieldPart),
                            FieldValue(parts[i + 1])))
            ELSE ParseFields(parts, i + 2, fields)

\* a CedroMessage: the ticker, the field map and the named accessors set
Message(ticker, fields, named) ==
  [status |-> "returned", ticker |-> ticker, fields |-> fields,
   named |-> named]

Returned(ticker, fields) == Message(ticker, fields, <<>>)

\* throw new Error('Invalid message format')
ThrewInvalidFormat ==
  [status |-> "threw", ticker |-> <<>>, fields |-> <<>>, named |-> <<>>]

\* the record returned for a text that does not begin with T:
NonCedroBlank(message) == Returned(<<>>, <<>>)
NonCedro(message) == Returned(message, <<>>)

\* parseCedroMessage(message); parts[k] of the code is parts[k + 1] here
ParseCedroMessage(message) ==
  IF ~StartsWith(message, <<"T", ":">>)
    THEN NonCedro(message)
    ELSE LET parts == IF EndsWith(message, <<"!">>)
                        THEN Split(Front(message), <<":">>)
                        ELSE Split(message, <<":">>)
         IN IF Len(parts) < 3
              THEN ThrewInvalidFormat
              ELSE LET fields == ParseFields(parts, 4, <<>>)
                       time == parts[3]
                   IN Returned(parts[2],
                               IF time # <<>>
                                 THEN SetField(fields, 0, TextValue(time))
                                 ELSE fields)

\* the entries of FIELD_MAPPINGS for the field IDs of the records checked
\* (the table has 145 entries; 51 and 54 both name lastTradeDate)
FIELD_MAPPINGS ==
  (0 :> "lastModificationTime") @@ (2 :> "lastTradePrice")
    @@ (3 :> "bestBidPrice") @@ (4 :> "bestAskPrice")
    @@ (51 :> "lastTradeDate") @@ (54 :> "lastTradeDate")

MaxOf(S) == CHOOSE x \in S : \A y \in S : y <= x

\* for (const [fieldId, fieldName] of Object.entries(FIELD_MAPPINGS))
\*   if (fields[numericId] !== undefined) message[fieldName] = fields[numericId]
\* the entries come in ascending order of the field ID, so that the last
\* assignment to a name is the one of its greatest field ID present
MappedFields(fields) ==
  LET present == DOMAIN FIELD_MAPPINGS \cap DOMAIN fields
  IN [name \in {FIELD_MAPPINGS[id] : id \in present} |->
        fields[MaxOf({id \in present : FIELD_MAPPINGS[id] = name})]]

\* humanizeCedroMessage(message)
HumanizeCedroMessage(message) ==
  Message(message.ticker, message.fields,
          MappedFields(message.fields) @@ message.named)

\* the loop `for (let i = 3; i < parts.length; i += 2)` of the parser of
\* src/cedroParser.ts
RECURSIVE ParseFieldsRoot(_, _, _)
ParseFieldsRoot(parts, i, fields) ==
  IF i > Len(parts) THEN fields
  ELSE IF i + 1 <= Len(parts)
         THEN ParseFieldsRoot(parts, i + 2,
                SetField(fields, ParseInt(parts[i]), FieldValue(parts[i + 1])))
         ELSE ParseFieldsRoot(parts, i + 2, fields)

\* parseCedroMessage(message) of src/cedroParser.ts: the text is split as it
\* is, nothing is thrown, and the named accessors are set by the parser
ParseCedroMessageRoot(message) ==
  IF ~StartsWith(message, <<"T", ":">>)
    THEN NonCedro(message)
    ELSE LET parts == Split(message, <<":">>)
             fields == ParseFieldsRoot(parts, 4, <<>>)
             timed == IF Len(parts) >= 3 /\ parts[3] # <<>>
                        THEN "lastModificationTime" :> TextValue(parts[3])
                        ELSE <<>>
         IN Message(parts[2], fields, MappedFields(fields) @@ timed)

\* String(n) for an integer that is not negative
RECURSIVE NatText(_)
NatText(n) ==
  IF n < 10 THEN <<CHOOSE c \in Digits : DigitValue(c) = n>>
  ELSE NatText(n \div 10) \o NatText(n % 10)

\* the key of the field map as Object.entries gives it
KeyText(key) == IF key = NaNKey THEN <<"N", "a", "N">> ELSE NatText(key)

\* `${value}` in a template
ValueText(value) == IF value.num THEN NatText(value.n) ELSE value.text

\* the characters of an accessor name
SeqOfName(name) ==
  CASE name = "lastModificationTime" ->
         <<"l", "a", "s", "t", "M", "o", "d", "i", "f", "i", "c", "a", "t", "i", "o", "n", "T", "i", "m", "e">>
    [] name = "lastTradePrice" ->
         <<"l", "a", "s", "t", "T", "r", "a", "d", "e", "P", "r", "i", "c", "e">>
    [] name = "bestBidPrice" ->
         <<"b", "e", "s", "t", "B", "i", "d", "P", "r", "i", "c", "e">>
    [] name = "bestAskPrice" ->
         <<"b", "e", "s", "t", "A", "s", "k", "P", "r", "i", "c", "e">>
    [] name = "lastTradeDate" ->
         <<"l", "a", "s", "t", "T", "r", "a", "d", "e", "D", "a", "t", "e">>

\* the line of the section `Campos Originais` for one field
FieldLine(fields, key) ==
  LET fieldName == IF key \in DOMAIN FIELD_MAPPINGS
                     THEN SeqOfName(FIELD_MAPPINGS[key])
                     ELSE <<"C", "a", "m", "p", "o", " ">> \o KeyText(key)
  IN <<" ", " ">> \o KeyText(key) \o <<" ", "(">> \o fieldName
       \o <<")", ":", " ">> \o ValueText(fields[key]) \o <<"\n">>

\* for (const [fieldId, value] of Object.entries(message.fields)): the integer
\* keys in ascending order, then the key NaN
RECURSIVE FieldLines(_, _)
FieldLines(fields, keys) ==
  IF keys = {} THEN <<>>
  ELSE LET ints == keys \ {NaNKey}
           key == IF ints = {} THEN NaNKey
                  ELSE CHOOSE k \in ints : \A j \in ints : k <= j
       IN FieldLine(fields, key) \o FieldLines(fields, keys \ {key})

\* the date of `Data Ultimo Negocio`: YYYYMMDD is rendered as DD/MM/YYYY
DateText(dateStr) ==
  IF Len(dateStr) = 8
    THEN SubSeq(dateStr, 7, 8) \o <<"/">> \o SubSeq(dateStr, 5, 6)
           \o <<"/">> \o SubSeq(dateStr, 1, 4)
    ELSE dateStr

\* formatCedroMessage(message); the sections of the named accessors that are
\* not in FIELD_MAPPINGS above are never rendered and are left out
FormatCedroMessage(message) ==
  LET named == message.named
      has(name) == name \in DOMAIN named
  IN <<"T", "i", "c", "k", "e", "r", ":", " ">> \o message.ticker \o <<"\n">>
       \o (IF has("lastTradePrice")
             THEN 
         <<"Ú", "l", "t", "i", "m", "o", " ", "P", "r", "e", "ç", "o", ":", " ">> \o ValueText(named["lastTradePrice"]) \o <<"\n">>
             ELSE <<>>)
       \o (IF has("bestBidPrice") /\ has("bestAskPrice")
             THEN 
         <<"C", "o", "m", "p", "r", "a", "/", "V", "e", "n", "d", "a", ":", " ">> \o ValueText(named["bestBidPrice"]) \o <<"/">>
                    \o ValueText(named["bestAskPrice"]) \o <<"\n">>
             ELSE <<>>)
       \o (IF has("lastTradeDate")
             THEN 
         <<"D", "a", "t", "a", " ", "Ú", "l", "t", "i", "m", "o", " ", "N", "e", "g", "ó", "c", "i", "o", ":", " ">> \o DateText(ValueText(named["lastTradeDate"]))
                    \o <<"\n">>
             ELSE <<>>)
       \o 
         <<"\n", "C", "a", "m", "p", "o", "s", " ", "O", "r", "i", "g", "i", "n", "a", "i", "s", ":", "\n">>
       \o FieldLines(message.fields, DOMAIN message.fields)

NotCalled ==
  [status |-> "idle", ticker |-> <<>>, fields |-> <<>>, named |-> <<>>]

NotFormatted == <<"(", "n", "o", "n", "e", ")">>

InitCodec ==
  /\ codecIn = <<>>
  /\ codecOut = NotCalled
  /\ codecOutRoot = NotCalled
  /\ codecHuman = NotCalled
  /\ codecText = NotFormatted
  /\ codecAgain = NotCalled

\* the texts of the codec check: any text of up to MaxText characters, as it
\* is and behind the record prefix `T:`
CodecTexts ==
  SeqsUpTo(CodecChars, MaxText)
    \cup {<<"T", ":">> \o t : t \in SeqsUpTo(CodecChars, MaxText)}

\* the tokens of the records of the record grammar
\*   T:<TICKER>:<TIME>(:<FIELD_ID>:<VALUE>)*[!]
RecordTickers == {<<"W">>}
RecordTimes == {<<"9">>}
RecordIds == {<<"2">>, <<"3">>, <<"5", "1">>, <<"5", "4">>}
RecordValues == {<<"7">>, <<"1", "2">>, <<"0", "-">>}

\* the text :<FIELD_ID>:<VALUE> repeated for the pairs of a sequence
RECURSIVE PairsText(_)
PairsText(pairs) ==
  IF pairs = <<>> THEN <<>>
  ELSE <<":">> \o Head(pairs)[1] \o <<":">> \o Head(pairs)[2]
         \o PairsText(Tail(pairs))

\* the records of up to MaxFields fields, with and without the terminator
RecordTexts ==
  {<<"T", ":">> \o tk \o <<":">> \o tm \o PairsText(pairs) \o term :
     tk \in RecordTickers, tm \in RecordTimes,
     pairs \in SeqsUpTo(RecordIds \X RecordValues, MaxFields),
     term \in {<<>>, <<"!">>}}

\* one call of parseCedroMessage on the text
Decode ==
  /\ codecOut.status = "idle"
  /\ codecOut' = ParseCedroMessage(codecIn)
  /\ UNCHANGED <<codecIn, codecOutRoot, codecHuman, codecText, codecAgain>>
  /\ UNCHANGED nonCodecVars

\* one call of the parseCedroMessage of src/cedroParser.ts on the text
DecodeRoot ==
  /\ codecOutRoot.status = "idle"
  /\ codecOutRoot' = ParseCedroMessageRoot(codecIn)
  /\ UNCHANGED <<codecIn, codecOut, codecHuman, codecText, codecAgain>>
  /\ UNCHANGED nonCodecVars

\* humanizeCedroMessage on the record decoded
Humanize ==
  /\ codecOut.status = "returned"
  /\ codecHuman.status = "idle"
  /\ codecHuman' = HumanizeCedroMessage(codecOut)
  /\ UNCHANGED <<codecIn, codecOut, codecOutRoot, codecText, codecAgain>>
  /\ UNCHANGED nonCodecVars

\* formatCedroMessage(parseCedroMessage(message)), as the programs call it
Format ==
  /\ codecOut.status = "returned"
  /\ codecText = NotFormatted
  /\ codecText' = FormatCedroMessage(codecOut)
  /\ UNCHANGED <<codecIn, codecOut, codecOutRoot, codecHuman, codecAgain>>
  /\ UNCHANGED nonCodecVars

\* parseCedroMessage on the text formatCedroMessage gave
Redecode ==
  /\ codecText # NotFormatted
  /\ codecAgain.status = "idle"
  /\ codecAgain' = ParseCedroMessage(codecText)
  /\ UNCHANGED <<codecIn, codecOut, codecOutRoot, codecHuman, codecText>>
  /\ UNCHANGED nonCodecVars

NextCodec ==
  \/ Decode
  \/ DecodeRoot
  \/ Humanize
  \/ Format
  \/ Redecode

\* C20: a call of parseCedroMessage returns a record, whatever the text.
C20_DecodeNeverThrows == codecOut.status # "threw"

\* what a parser gives for a text that is not a record: the text as the
\* ticker and no field
IsFallback(out, message) ==
  /\ out.status = "returned"
  /\ out.ticker = message
  /\ DOMAIN out.fields = {}

\* C21: when parseCedroMessage has been called on a text that does not begin
\* with `T:`, it has returned a record whose ticker is the text, verbatim,
\* and whose field map is empty; this holds of the parser of
\* src/unnamed/part_009 and of the parser of src/cedroParser.ts.
C21_NonCedroFallback ==
  ~StartsWith(codecIn, <<"T", ":">>) =>
    /\ codecOut.status # "idle" => IsFallback(codecOut, codecIn)
    /\ codecOutRoot.status # "idle" => IsFallback(codecOutRoot, codecIn)

\* both parsers have been called on a text with a colon in it that does not
\* begin with `T:`
C21_Witness ==
  /\ ~StartsWith(codecIn, <<"T", ":">>)
  /\ \E k \in DOMAIN codecIn : codecIn[k] = ":"
  /\ codecOut.status = "returned"
  /\ codecOutRoot.status = "returned"

\* C22: when a record that ends with the terminator `!` has been decoded,
\* its field map is the one decode gives for the record without the
\* terminator, the last field included; stated of both parsers.
C22_TerminatorStripped ==
  EndsWith(codecIn, <<"!">>) =>
    /\ codecOut.status # "idle" =>
         codecOut.fields = ParseCedroMessage(Front(codecIn)).fields
    /\ codecOutRoot.status # "idle" =>
         codecOutRoot.fields = ParseCedroMessageRoot(Front(codecIn)).fields

\* every field of the record whose ID is in FIELD_MAPPINGS is readable under
\* its name, with the value of the field map
AccessorsSet(out) ==
  \A id \in DOMAIN FIELD_MAPPINGS \cap DOMAIN out.fields :
    /\ FIELD_MAPPINGS[id] \in DOMAIN out.named
    /\ out.named[FIELD_MAPPINGS[id]] = out.fields[id]

\* C23: when parseCedroMessage has returned for a record that begins with
\* `T:`, every known field ID of the record is exposed through its named
\* accessor with the value of the field map; stated of both parsers.
C23_NamedAccessors ==
  StartsWith(codecIn, <<"T", ":">>) =>
    /\ codecOut.status = "returned" => AccessorsSet(codecOut)
    /\ codecOutRoot.status = "returned" => AccessorsSet(codecOutRoot)

\* C24: when a record of the grammar has been decoded, the result encoded
\* with formatCedroMessage and that text decoded again, the second record
\* has the ticker of the first and every numeric field of the first with
\* the same value.
C24_RoundTrip ==
  codecAgain.status # "idle" =>
    /\ codecAgain.status = "returned"
    /\ codecAgain.ticker = codecOut.ticker
    /\ \A id \in DOMAIN codecOut.fields :
         codecOut.fields[id].num =>
           /\ id \in DOMAIN codecAgain.fields
           /\ codecAgain.fields[id] = codecOut.fields[id]

(***************************************************************************)
(* messageStream: TextDecoder and the framing on \r\n                      *)
(***************************************************************************)
CR == 13
LF == 10

\* U+FFFD, which TextDecoder puts in the place of a malformed sequence
ReplacementChar == 65533

\* the bytes of the feed: the letter a, CR, LF and the two bytes of U+00E9
FeedBytes == {97, CR, LF, 195, 169}

\* lead byte of a two-byte sequence, continuation byte
IsLead2(b) == b \in 194..223
IsContinuation(b) == b \in 128..191

\* new TextDecoder().decode(chunk): UTF-8 with one- and two-byte sequences;
\* every byte that does not begin a complete sequence inside this chunk
\* becomes U+FFFD.  The characters are written as code points.
RECURSIVE TextDecode(_)
TextDecode(chunk) ==
  IF chunk = <<>> THEN <<>>
  ELSE IF Head(chunk) < 128
    THEN <<Head(chunk)>> \o TextDecode(Tail(chunk))
  ELSE IF IsLead2(Head(chunk)) /\ Len(chunk) >= 2 /\ IsContinuation(chunk[2])
    THEN <<(Head(chunk) - 192) * 64 + (chunk[2] - 128)>>
           \o TextDecode(SubSeq(chunk, 3, Len(chunk)))
  ELSE <<ReplacementChar>> \o TextDecode(Tail(chunk))

InitFrame ==
  /\ wire = <<>>
  /\ wireDone = <<>>
  /\ frameBuffer = <<>>
  /\ frames = <<>>

\* the callback of Stream.mapAccum: [leftover, parts]
FrameStep(buffer, text) ==
  LET combined == buffer \o text
      parts == Split(combined, <<CR, LF>>)
  IN [leftover |-> Last(parts), parts |-> Front(parts)]

\* the connection delivers the next n bytes as one chunk: Stream.map decodes
\* it, Stream.mapAccum frames it, Stream.flatMap emits the messages
FrameChunk(n) ==
  /\ n \in 1..Len(wire)
  /\ LET chunk == SubSeq(wire, 1, n)
         step == FrameStep(frameBuffer, TextDecode(chunk))
     IN /\ wire' = SubSeq(wire, n + 1, Len(wire))
        /\ wireDone' = wireDone \o chunk
        /\ frameBuffer' = step.leftover
        /\ frames' = frames \o step.parts
  /\ UNCHANGED nonFrameVars

NextFraming == \E n \in 1..MaxBytes : FrameChunk(n)

\* C18: when the whole byte sequence has been delivered, in whatever chunks,
\* the emitted messages are the \r\n-terminated records of the text of the
\* byte sequence, in order, and the buffer holds the unterminated tail.
C18_FramingExact ==
  wire = <<>> =>
    /\ frames = Front(Split(TextDecode(wireDone), <<CR, LF>>))
    /\ frameBuffer = Last(Split(TextDecode(wireDone), <<CR, LF>>))

(***************************************************************************)
(* The data handler of TcpClient.connect                                   *)
(***************************************************************************)
HandlerChars == {"T", "S", "Y", "N", "!", ":", " "}

InitHandler ==
  /\ hChunk = <<>>
  /\ hStatus = "idle"
  /\ hLogged = <<>>
  /\ messageCount = 0

\* the test the loop makes on a segment
IsRecord(message) ==
  StartsWith(message, <<"T">>) \/ StartsWith(message, <<"S", "Y", "N">>)

\* for (const message of messages): the segments counted and logged, and the
\* way the loop ended.  parseCedroMessage is called before the test; when it
\* throws the handler ends there, and `return` ends it as well.
RECURSIVE HandleLoop(_, _)
HandleLoop(messages, logged) ==
  IF messages = <<>> THEN [status |-> "completed", logged |-> logged]
  ELSE IF ParseCedroMessage(Head(messages)).status = "threw"
    THEN [status |-> "threw", logged |-> logged]
  ELSE IF ~IsRecord(Head(messages))
    THEN [status |-> "returned", logged |-> logged]
  ELSE HandleLoop(Tail(messages), Append(logged, Head(messages)))

\* data(_socket, data): Buffer.from(data).toString().trim().split('!')
DataHandler ==
  /\ hStatus = "idle"
  /\ LET messages == Split(Trim(hChunk), <<"!">>)
         result == HandleLoop(messages, <<>>)
     IN /\ hStatus' = result.status
        /\ hLogged' = result.logged
        /\ messageCount' = messageCount + Len(result.logged)
  /\ UNCHANGED hChunk
  /\ UNCHANGED nonHandlerVars

NextHandler == DataHandler

RECURSIVE Select(_, _)
Select(messages, keep) ==
  IF messages = <<>> THEN <<>>
  ELSE IF keep[1] THEN <<Head(messages)>> \o Select(Tail(messages), Tail(keep))
  ELSE Select(Tail(messages), Tail(keep))

\* the segments of the chunk that are records, in order
RecordsOf(chunk) ==
  LET messages == Split(Trim(chunk), <<"!">>)
  IN Select(messages, [k \in DOMAIN messages |-> IsRecord(messages[k])])

\* C19: when the data handler has run on a chunk, every segment of the chunk
\* that is a record has been counted and logged, whatever the other segments
\* of the chunk are.
C19_OnlyBadSegmentDropped ==
  hStatus # "idle" =>
    /\ hLogged = RecordsOf(hChunk)
    /\ messageCount = Len(RecordsOf(hChunk))

(***************************************************************************)
(* The metrics service: windows, rates and the moving average              *)
(***************************************************************************)
InitMetrics ==
  /\ mQueue = 0
  /\ mQueueShut = FALSE
  /\ mReceived = 0
  /\ lifetime = 0
  /\ mAhead = 0
  /\ window = 0
  /\ measured = 0
  /\ rates = <<>>
  /\ windowLog = <<>>
  /\ idleIntervals = 0
  /\ mMain = "running"
  /\ mStream = "running"

RECURSIVE SumSeq(_)
SumSeq(q) == IF q = <<>> THEN 0 ELSE Head(q) + SumSeq(Tail(q))

\* rate: count / windowTime with windowTime = config.windowSize / 1_000; the
\* quotient is exact for the default window of 500 ms (two per message)
RateOf(count) == (count * 1000) \div WindowSize

\* if (nextRates.length > rateWindowSize) nextRates.shift()
ShiftNewest(nextRates) ==
  IF Len(nextRates) > RateWindowSize THEN Front(nextRates) ELSE nextRates
Shift(nextRates) ==
  IF Len(nextRates) > RateWindowSize THEN Tail(nextRates) ELSE nextRates

\* const nextRates = [...rates, rate], shifted
NextRates(retained, rate) == Shift(Append(retained, rate))

\* nextRates.reduce((a, b) => a + b, 0) / nextRates.length, kept as the
\* fraction sum / over
MovingAvgOverN(nextRates) ==
  [sum |-> SumSeq(nextRates), over |-> RateWindowSize]
MovingAvg(nextRates) == [sum |-> SumSeq(nextRates), over |-> Len(nextRates)]

\* const totalMillis = windowTime * 1_000
TotalMillis == WindowSize

\* Number((totalMillis / windowCount).toFixed(2)) in hundredths of a ms,
\* rounded to the nearest
ToFixed2(totalMillis, windowCount) ==
  (2 * 100 * totalMillis + windowCount) \div (2 * windowCount)

\* windowCount > 0 ? Number((totalMillis / windowCount).toFixed(2)) : 0
AvgProcTime(totalMillis, windowCount) ==
  IF windowCount > 0 THEN ToFixed2(totalMillis, windowCount) ELSE 0

\* validateMetrics(metrics); timestampAhead is metrics.timestamp - Date.now()
ValidateMetricsAlways(metrics) == TRUE
ValidateMetrics(metrics) ==
  /\ ~(metrics.windowCount < 0)
  /\ ~(metrics.messageRate.sum < 0)
  /\ metrics.avgProcessingTime \in Int
  /\ ~(metrics.timestampAhead > FutureSlack)

\* t1 - t0: the time, in ms, the processing of one message takes
ProcessingTimes == {1}

\* by how much Date.now() moves between Clock.currentTimeMillis of the
\* metrics record and the check of validateMetrics: forward, or back by two
\* seconds when the system clock is set back
ClockSteps == {0, -2000}

\* the stages after groupedWithin on one chunk of `count` items: the rate, the
\* moving average, the metrics record (total_count is the value of the
\* counter) and the filter
WindowRecord(count, total, cause, step, total_count) ==
  LET rate == RateOf(count)
      nextRates == NextRates(rates, rate)
      metrics == [timestampAhead |-> 0 - step,
                  windowCount |-> count,
                  totalCount |-> total_count,
                  messageRate |-> MovingAvg(nextRates),
                  avgProcessingTime |-> AvgProcTime(TotalMillis, count)]
  IN [cause |-> cause, count |-> count, measured |-> total, rate |-> rate,
      metrics |-> metrics, published |-> ValidateMetrics(metrics)]

\* groupedWithin emits the chunk collected and the downstream stages run
EmitWindow(count, total, cause, step, total_count) ==
  /\ windowLog' = Append(windowLog,
                       WindowRecord(count, total, cause, step, total_count))
  /\ rates' = NextRates(rates, RateOf(count))
  /\ window' = 0
  /\ measured' = 0

\* Metric.increment(messageCounter)
IncrementNone(counter) == counter
Increment(counter) == counter + 1

\* the subscription callback: Queue.unsafeOffer(incomingQueue, message)
Receive ==
  /\ ~mQueueShut
  /\ mReceived < MaxReceived
  /\ mQueue' = mQueue + 1
  /\ mReceived' = mReceived + 1
  /\ UNCHANGED <<mQueueShut, lifetime, window, measured, rates, windowLog,
                 idleIntervals, mMain, mStream>>
  /\ UNCHANGED mAhead
  /\ UNCHANGED nonMetricsVars

\* the producer side of groupedWithin pulls a message from the queue: the
\* tap increments the counter and the message waits in the hand-off
TakeMessage ==
  /\ mStream = "running"
  /\ ~mQueueShut
  /\ mQueue > 0
  /\ mAhead < MaxAhead
  /\ mQueue' = mQueue - 1
  /\ lifetime' = Increment(lifetime)
  /\ mAhead' = mAhead + 1
  /\ UNCHANGED <<mQueueShut, mReceived, window, measured, rates, windowLog,
                 idleIntervals, mMain, mStream>>
  /\ UNCHANGED nonMetricsVars

\* the consumer side takes the message from the hand-off: it joins the
\* window, which is emitted when it holds maxWindowMessages; the stages
\* after the window read the counter as it is at that moment
Collect(millis, step) ==
  /\ mStream = "running"
  /\ mAhead > 0
  /\ mAhead' = mAhead - 1
  /\ IF window + 1 >= MaxWindowMessages
       THEN EmitWindow(window + 1, measured + millis, "full", step, lifetime)
       ELSE /\ window' = window + 1
            /\ measured' = measured + millis
            /\ UNCHANGED <<rates, windowLog>>
  /\ UNCHANGED <<mQueue, mQueueShut, mReceived, lifetime, idleIntervals,
                 mMain, mStream>>
  /\ UNCHANGED nonMetricsVars

\* the window interval elapses: groupedWithin emits the chunk collected when
\* items were consumed in the interval, and nothing otherwise
IntervalElapsed(step) ==
  /\ mStream = "running"
  /\ IF window > 0
       THEN /\ EmitWindow(window, measured, "interval", step, lifetime)
            /\ UNCHANGED idleIntervals
       ELSE /\ idleIntervals < MaxIdle
            /\ idleIntervals' = idleIntervals + 1
            /\ UNCHANGED <<window, measured, rates, windowLog>>
  /\ UNCHANGED <<mQueue, mQueueShut, mReceived, lifetime, mMain, mStream>>
  /\ UNCHANGED mAhead
  /\ UNCHANGED nonMetricsVars

\* the program fiber is interrupted: Effect.onInterrupt(() => shutdown)
InterruptMain ==
  /\ mMain = "running"
  /\ mMain' = "shuttingDown"
  /\ UNCHANGED <<mQueue, mQueueShut, mReceived, lifetime, window, measured,
                 rates, windowLog, idleIntervals, mStream>>
  /\ UNCHANGED mAhead
  /\ UNCHANGED nonMetricsVars

\* shutdown after its sleep: Queue.shutdown(incomingQueue) discards what is
\* waiting in the queue, and the program fiber ends
ShutdownQueue ==
  /\ mMain = "shuttingDown"
  /\ mQueueShut' = TRUE
  /\ mQueue' = 0
  /\ mMain' = "exited"
  /\ UNCHANGED <<mReceived, lifetime, window, measured, rates, windowLog,
                 idleIntervals, mStream>>
  /\ UNCHANGED mAhead
  /\ UNCHANGED nonMetricsVars

\* Stream.fromQueue ends on the shut down queue once the hand-off is empty:
\* groupedWithin emits the partial window when it holds items, and the
\* stream ends
StreamEnd(step) ==
  /\ mStream = "running"
  /\ mQueueShut
  /\ mAhead = 0
  /\ mStream' = "ended"
  /\ IF window > 0
       THEN EmitWindow(window, measured, "end", step, lifetime)
       ELSE UNCHANGED <<window, measured, rates, windowLog>>
  /\ UNCHANGED <<mQueue, mQueueShut, mReceived, lifetime, idleIntervals, mMain>>
  /\ UNCHANGED mAhead
  /\ UNCHANGED nonMetricsVars

\* the program fiber has ended: the fiber forked for the stream is its child
\* and is interrupted
InterruptStream ==
  /\ mMain = "exited"
  /\ mStream = "running"
  /\ mStream' = "interrupted"
  /\ UNCHANGED <<mQueue, mQueueShut, mReceived, lifetime, window, measured,
                 rates, windowLog, idleIntervals, mMain>>
  /\ UNCHANGED mAhead
  /\ UNCHANGED nonMetricsVars

NextMetrics ==
  \/ Receive
  \/ TakeMessage
  \/ \E millis \in ProcessingTimes, step \in ClockSteps :
       Collect(millis, step)
  \/ \E step \in ClockSteps : IntervalElapsed(step)
  \/ InterruptMain
  \/ ShutdownQueue
  \/ \E step \in ClockSteps : StreamEnd(step)
  \/ InterruptStream

\* the rates and the counts of the windows emitted so far, in order
RatesOf(log) == [k \in 1..Len(log) |-> log[k].rate]
CountsOf(log) == [k \in 1..Len(log) |-> log[k].count]

\* the last n elements of a sequence
LastOf(q, n) == SubSeq(q, Len(q) - n + 1, Len(q))

Min(a, b) == IF a <= b THEN a ELSE b

\* C25: after each completed window the retained rate sequence holds the
\* rates of the most recent min(k, N) windows in arrival order, never more
\* than N of them, and the moving average reported with the window is the
\* arithmetic mean of exactly those rates.
C25_RetainedRates ==
  LET k == Len(windowLog)
  IN /\ Len(rates) <= RateWindowSize
     /\ rates = LastOf(RatesOf(windowLog), Min(k, RateWindowSize))
     /\ k > 0 =>
          /\ windowLog[k].metrics.messageRate.sum = SumSeq(rates)
          /\ windowLog[k].metrics.messageRate.over = Len(rates)

\* more than N windows have completed and the evicted rate differs from the
\* newest one
C25_Witness ==
  /\ Len(windowLog) > RateWindowSize
  /\ windowLog[1].rate # windowLog[Len(windowLog)].rate

\* the N windows up to window k all hold the same number of messages
ConstantUpTo(k) ==
  /\ k >= RateWindowSize
  /\ \A j \in (k - RateWindowSize + 1)..k :
       windowLog[j].count = windowLog[k].count

C27_WindowPerInterval ==
  /\ \A k \in 1..Len(windowLog) : windowLog[k].count <= MaxWindowMessages
  /\ idleIntervals
       = Cardinality({k \in 1..Len(windowLog) : windowLog[k].count = 0})

\* C28: the average processing latency of every emitted window is the total
\* measured processing time of its messages divided by its message count
\* (to the two decimals kept), and 0 when the count is 0.
C28_AverageLatency ==
  \A k \in 1..Len(windowLog) :
    windowLog[k].metrics.avgProcessingTime
      = AvgProcTime(windowLog[k].measured, windowLog[k].count)

\* C29: no Window record with a negative count, a negative rate, a latency
\* that is not finite or a timestamp more than one second in the future is
\* published.
C29_OnlyValidPublished ==
  \A k \in 1..Len(windowLog) :
    windowLog[k].published =>
      /\ windowLog[k].metrics.windowCount >= 0
      /\ windowLog[k].metrics.messageRate.sum >= 0
      /\ windowLog[k].metrics.avgProcessingTime \in Int
      /\ windowLog[k].metrics.timestampAhead <= FutureSlack

\* a record with a timestamp in the future was dropped and a later window was
\* published
C29_Witness ==
  \E j, k \in 1..Len(windowLog) :
    /\ j < k
    /\ ~windowLog[j].published
    /\ windowLog[j].metrics.timestampAhead > FutureSlack
    /\ windowLog[k].published

\* C30: when the aggregator has exited after a shutdown, every message
\* received before the shutdown is in an emitted window, the messages of the
\* last, partial window included.
C30_FinalWindowFlushed ==
  mStream # "running" => SumSeq(CountsOf(windowLog)) = mReceived

\* C40: in every record the lifetime counter totalCount is at least the sum
\* of the windowCount values of the records emitted up to and including it,
\* and totalCount does not decrease from one record to the next.
C40_TotalCountCoversWindows ==
  \A k \in 1..Len(windowLog) :
    /\ windowLog[k].metrics.totalCount
         >= SumSeq(SubSeq(CountsOf(windowLog), 1, k))
    /\ k > 1 => windowLog[k - 1].metrics.totalCount
                  <= windowLog[k].metrics.totalCount

\* a second record was emitted while a message already counted was still
\* ahead of its window
C40_Witness ==
  /\ Len(windowLog) >= 2
  /\ windowLog[Len(windowLog)].metrics.totalCount
       > SumSeq(CountsOf(windowLog))

(***************************************************************************)
(* makeTcpClient: the connect, the signals and the framing of receive$     *)
(***************************************************************************)
InitClient ==
  /\ tcSock = "connecting"
  /\ tcSockError = FALSE
  /\ tcResume = "pending"
  /\ tcFirst = "none"
  /\ tcDataQueue = <<>>
  /\ tcSignalQueue = <<>>
  /\ tcChunks = 0
  /\ tcReceive = "running"
  /\ tcBuffer = <<>>
  /\ tcNewlineIndex = -1
  /\ tcMessages = <<>>
  /\ tcLoop = "idle"
  /\ tcIter = 0
  /\ tcConsumed = <<>>
  /\ tcOut = <<>>

\* the bytes of the chunks: a letter and the newline
ClientBytes == {97, LF}

\* resume(effect) of Effect.async: the first call decides, later calls are
\* ignored
ResumeLast(resumed, effect) == effect
Resume(resumed, effect) == IF resumed = "pending" THEN effect ELSE resumed

\* the first event of the connect phase
FirstEvent(first, event) == IF first = "none" THEN event ELSE first

\* the client is returned: makeTcpClient got the socket and went on
ClientReturned == tcResume = "socket"

\* the connect callback of net.createConnection
TcConnect ==
  /\ tcSock = "connecting"
  /\ ~tcSockError
  /\ tcSock' = "connected"
  /\ tcResume' = Resume(tcResume, "socket")
  /\ tcFirst' = FirstEvent(tcFirst, "connect")
  /\ UNCHANGED <<tcSockError, tcDataQueue, tcSignalQueue, tcChunks, tcReceive,
                 tcBuffer, tcNewlineIndex, tcMessages, tcLoop, tcIter,
                 tcConsumed, tcOut>>
  /\ UNCHANGED nonClientVars

\* the socket emits 'error': sock.once('error') of the connect phase, or
\* socket.on('error') of the client
TcError ==
  /\ tcSock # "closed"
  /\ ~tcSockError
  /\ tcSockError' = TRUE
  /\ IF tcSock = "connecting"
       THEN /\ tcResume' = Resume(tcResume, "ConnectionError (error)")
            /\ tcFirst' = FirstEvent(tcFirst, "error")
            /\ UNCHANGED tcSignalQueue
       ELSE /\ tcSignalQueue' = Append(tcSignalQueue, "fail")
            /\ UNCHANGED <<tcResume, tcFirst>>
  /\ UNCHANGED <<tcSock, tcDataQueue, tcChunks, tcReceive, tcBuffer,
                 tcNewlineIndex, tcMessages, tcLoop, tcIter, tcConsumed, tcOut>>
  /\ UNCHANGED nonClientVars

\* the socket emits 'close': sock.once('close') of the connect phase, or
\* socket.on('close') of the client
TcClose ==
  /\ tcSock # "closed"
  /\ tcSock' = "closed"
  /\ IF tcSock = "connecting"
       THEN /\ tcResume' = Resume(tcResume, "ConnectionError (close)")
            /\ tcFirst' = FirstEvent(tcFirst, "close")
            /\ UNCHANGED tcSignalQueue
       ELSE /\ tcSignalQueue' = Append(tcSignalQueue, "succeed")
            /\ UNCHANGED <<tcResume, tcFirst>>
  /\ UNCHANGED <<tcSockError, tcDataQueue, tcChunks, tcReceive, tcBuffer,
                 tcNewlineIndex, tcMessages, tcLoop, tcIter, tcConsumed, tcOut>>
  /\ UNCHANGED nonClientVars

\* socket.on('data'): Queue.unsafeOffer(dataQueue, data)
TcData(data) ==
  /\ tcSock = "connected"
  /\ ~tcSockError
  /\ tcLoop = "idle"
  /\ tcChunks < MaxChunks
  /\ tcChunks' = tcChunks + 1
  /\ tcDataQueue' = Append(tcDataQueue, data)
  /\ UNCHANGED <<tcSock, tcSockError, tcResume, tcFirst, tcSignalQueue,
                 tcReceive, tcBuffer, tcNewlineIndex, tcMessages, tcLoop,
                 tcIter, tcConsumed, tcOut>>
  /\ UNCHANGED nonClientVars

\* Buffer.concat of the chunks taken from the queue
RECURSIVE ChunkToBuffer(_)
ChunkToBuffer(chunk) ==
  IF chunk = <<>> THEN <<>> ELSE Head(chunk) \o ChunkToBuffer(Tail(chunk))

\* currentBuffer.indexOf('\n'), counted from 0; -1 when there is none
IndexOfNewline(buffer) ==
  IF \E k \in DOMAIN buffer : buffer[k] = LF
    THEN (CHOOSE k \in DOMAIN buffer :
            buffer[k] = LF /\ \A j \in 1..(k - 1) : buffer[j] # LF) - 1
    ELSE -1

\* buffer.subarray(from, to), both counted from 0 and clamped to the length
Subarray(buffer, from, to) ==
  SubSeq(buffer, Min(from, Len(buffer)) + 1, Min(to, Len(buffer)))

\* the framing step of receive$ up to the test of its while loop: the chunks
\* waiting are appended to currentBuffer and newlineIndex is computed, once;
\* without a newline the step returns no message
TcFrame ==
  /\ ClientReturned
  /\ tcReceive = "running"
  /\ tcLoop = "idle"
  /\ tcDataQueue # <<>>
  /\ LET buffer == tcBuffer \o ChunkToBuffer(tcDataQueue)
     IN /\ tcBuffer' = buffer
        /\ tcNewlineIndex' = IndexOfNewline(buffer)
        /\ tcLoop' = IF IndexOfNewline(buffer) # -1 THEN "looping" ELSE "idle"
  /\ tcConsumed' = tcConsumed \o ChunkToBuffer(tcDataQueue)
  /\ tcDataQueue' = <<>>
  /\ tcMessages' = <<>>
  /\ UNCHANGED <<tcSock, tcSockError, tcResume, tcFirst, tcSignalQueue,
                 tcChunks, tcReceive, tcIter, tcOut>>
  /\ UNCHANGED nonClientVars

\* one iteration of `while (newlineIndex !== -1)`: newlineIndex is a const of
\* the step and is not computed again, so the test of the loop stays true
TcLoopStep ==
  /\ tcLoop = "looping"
  /\ tcIter < MaxLoop
  /\ tcMessages' =
       Append(tcMessages, TextDecode(Subarray(tcBuffer, 0, tcNewlineIndex)))
  /\ tcBuffer' = Subarray(tcBuffer, tcNewlineIndex + 1, Len(tcBuffer))
  /\ tcIter' = tcIter + 1
  /\ UNCHANGED <<tcSock, tcSockError, tcResume, tcFirst, tcDataQueue,
                 tcSignalQueue, tcChunks, tcReceive, tcNewlineIndex, tcLoop,
                 tcConsumed, tcOut>>
  /\ UNCHANGED nonClientVars

\* Stream.flatMap(signalStream, Exit.match(...)): a failure fails receive$,
\* a success gives Stream.empty and the next signal is awaited
TcSignal ==
  /\ ClientReturned
  /\ tcReceive = "running"
  /\ tcLoop = "idle"
  /\ tcSignalQueue # <<>>
  /\ tcSignalQueue' = Tail(tcSignalQueue)
  /\ tcReceive' = IF Head(tcSignalQueue) = "fail" THEN "failed" ELSE tcReceive
  /\ UNCHANGED <<tcSock, tcSockError, tcResume, tcFirst, tcDataQueue,
                 tcChunks, tcBuffer, tcNewlineIndex, tcMessages, tcLoop,
                 tcIter, tcConsumed, tcOut>>
  /\ UNCHANGED nonClientVars

NextClient ==
  \/ TcConnect
  \/ TcError
  \/ TcClose
  \/ \E data \in SeqsUpTo(ClientBytes, MaxChunkBytes) \ {<<>>} : TcData(data)
  \/ TcFrame
  \/ TcLoopStep
  \/ TcSignal

\* the lines of a byte sequence: the decoded pieces that end with a newline
LinesOf(bytes) ==
  LET pieces == Split(bytes, <<LF>>)
  IN [k \in 1..(Len(pieces) - 1) |-> TextDecode(pieces[k])]

\* C31: the framing step of receive$ terminates on a chunk with a newline and
\* gives each newline-terminated line once, without the newline: the
\* messages it has collected and emitted are the first lines of the bytes it
\* was given, and its loop runs at most once per line.
C31_FramingTerminates ==
  LET got == tcOut \o tcMessages
      lines == LinesOf(tcConsumed)
  IN /\ Len(got) <= Len(lines)
     /\ SubSeq(lines, 1, Len(got)) = got

\* C32: when the socket reports an error or closes before the connect has
\* completed, makeTcpClient fails with a ConnectionError and returns no
\* client, and the result is the one of the first event, whatever follows.
C32_FirstEventDecides ==
  /\ tcFirst = "error" => tcResume = "ConnectionError (error)"
  /\ tcFirst = "close" => tcResume = "ConnectionError (close)"
  /\ tcFirst \in {"error", "close"} => ~ClientReturned

\* the socket reported an error and then closed, before the connect completed
C32_Witness == tcFirst = "error" /\ tcSock = "closed" /\ tcSockError

\* C34: after a clean close of the socket (no error before it), once the
\* chunks and the signals waiting have been handled, receive$ has ended.
C34_CleanCloseEndsStream ==
  ( /\ ClientReturned
    /\ tcSock = "closed"
    /\ ~tcSockError
    /\ tcDataQueue = <<>>
    /\ tcSignalQueue = <<>>
    /\ tcLoop = "idle" ) => tcReceive = "ended"

(***************************************************************************)
(* The max tracker (src/unnamed/part_008): every message of the channel    *)
(* winfut is decoded with parseCedroMessage, the maxima of the day, the    *)
(* week and the month are updated and the new state is published on max.   *)
(***************************************************************************)
\* Ref.make({ day: '', maxDay: 0, week: '', maxWeek: 0, month: '', maxMonth: 0 })
\* (None stands for the empty string, which is no period)
InitTracker ==
  /\ stateRef = [day |-> None, maxDay |-> 0, week |-> None, maxWeek |-> 0,
                 month |-> None, maxMonth |-> 0]
  /\ maxLog = <<>>

\* the records the channel carries: a last trade price of 7 or 12, a record
\* without field 2, and a record with field 2 and another field
TrackerTexts ==
  { <<"T", ":", "W", ":", "9", ":", "2", ":", "7">>,
    <<"T", ":", "W", ":", "9", ":", "2", ":", "1", "2">>,
    <<"T", ":", "W", ":", "9", ":", "3", ":", "7">>,
    <<"T", ":", "W", ":", "9", ":", "2", ":", "7", ":", "3", ":", "1", "2">> }

\* Clock.currentTimeMillis in days since 1970-01-01: Sunday 4 January and
\* Monday 5 January 1970
TrackerDays == {3, 4}

\* getPeriods(ms): the day, the ISO week (a week begins on Monday; 4 January
\* is in week 1) and the month of the date, for a date of January 1970
GetPeriods(now) ==
  [day |-> now, week |-> (now + 3) \div 7 + 1, month |-> 1]

\* msg.lastTradePrice ?? 0, for an accessor that is a number when it is set
PriceOrZero(msg) ==
  IF "lastTradePrice" \in DOMAIN msg.named
    THEN msg.named["lastTradePrice"].n
    ELSE 0

\* Math.max(a, b) of two numbers
MathMax(a, b) == IF a >= b THEN a ELSE b

\* the body of Stream.mapEffect for the record msg at the clock value now
NewState(state, msg, now) ==
  LET periods == GetPeriods(now)
      price == PriceOrZero(msg)
  IN [day |-> periods.day,
      maxDay |-> IF state.day # periods.day THEN price
                 ELSE MathMax(state.maxDay, price),
      week |-> periods.week,
      maxWeek |-> IF state.week # periods.week THEN price
                  ELSE MathMax(state.maxWeek, price),
      month |-> periods.month,
      maxMonth |-> IF state.month # periods.month THEN price
                   ELSE MathMax(state.maxMonth, price)]

\* one message through the pipeline: Stream.map(parseCedroMessage), the
\* update of stateRef and the publication of the new state; the clock does
\* not run backwards
TrackMessage(message, now) ==
  /\ Len(maxLog) < MaxTracked
  /\ stateRef.day <= now
  /\ LET msg == ParseCedroMessage(message)
         newState == NewState(stateRef, msg, now)
     IN /\ stateRef' = newState
        /\ maxLog' = Append(maxLog, [published |-> newState,
                                     fields |-> msg.fields])
  /\ UNCHANGED nonTrackerVars

NextTracker == \E message \in TrackerTexts, now \in TrackerDays :
  TrackMessage(message, now)

\* the last trade prices (field 2) of the messages 1..k processed on the day
\* of message k
PricesOfDay(k) ==
  { maxLog[j].fields[2].n :
      j \in { i \in 1..k : /\ maxLog[i].published.day = maxLog[k].published.day
                           /\ 2 \in DOMAIN maxLog[i].fields } }

\* C39: every record published has as maxDay the greatest last trade price
\* (field 2) of the messages processed so far on its day, and within one day
\* maxDay does not decrease from one record to the next.
C39_MaxDayIsMaximum ==
  \A k \in DOMAIN maxLog :
    /\ PricesOfDay(k) # {} => maxLog[k].published.maxDay = MaxOf(PricesOfDay(k))
    /\ (k > 1 /\ maxLog[k - 1].published.day = maxLog[k].published.day) =>
         maxLog[k - 1].published.maxDay <= maxLog[k].published.maxDay

Init ==
  /\ InitTcp /\ InitServer /\ InitWss /\ InitCedro
  /\ InitFrame /\ InitHandler /\ InitCodec /\ InitMetrics /\ InitClient
  /\ InitTracker

\* the framing stage on every byte sequence of up to MaxBytes bytes
InitFraming ==
  /\ InitTcp /\ InitServer /\ InitWss /\ InitCedro /\ InitHandler /\ InitCodec
  /\ InitMetrics /\ InitClient /\ InitTracker
  /\ wire \in SeqsUpTo(FeedBytes, MaxBytes)
  /\ wireDone = <<>>
  /\ frameBuffer = <<>>
  /\ frames = <<>>

SpecFraming == InitFraming /\ [][NextFraming]_vars

\* the data handler on every chunk of up to MaxChunkLen characters
InitDataHandler ==
  /\ InitTcp /\ InitServer /\ InitWss /\ InitCedro /\ InitFrame /\ InitCodec
  /\ InitMetrics /\ InitClient /\ InitTracker
  /\ hChunk \in SeqsUpTo(HandlerChars, MaxChunkLen)
  /\ hStatus = "idle"
  /\ hLogged = <<>>
  /\ messageCount = 0

SpecHandler == InitDataHandler /\ [][NextHandler]_vars

\* parseCedroMessage on every text of CodecTexts
InitDecode ==
  /\ InitTcp /\ InitServer /\ InitWss /\ InitCedro /\ InitFrame /\ InitHandler
  /\ InitMetrics /\ InitClient /\ InitTracker
  /\ codecIn \in CodecTexts
  /\ codecOut = NotCalled
  /\ codecOutRoot = NotCalled
  /\ codecHuman = NotCalled
  /\ codecText = NotFormatted
  /\ codecAgain = NotCalled

SpecCodec == InitDecode /\ [][NextCodec]_vars

\* the codec on every record of RecordTexts
InitRecord ==
  /\ InitTcp /\ InitServer /\ InitWss /\ InitCedro /\ InitFrame /\ InitHandler
  /\ InitMetrics /\ InitClient /\ InitTracker
  /\ codecIn \in RecordTexts
  /\ codecOut = NotCalled
  /\ codecOutRoot = NotCalled
  /\ codecHuman = NotCalled
  /\ codecText = NotFormatted
  /\ codecAgain = NotCalled

SpecRecord == InitRecord /\ [][NextCodec]_vars

SpecCedro == Init /\ [][NextCedro]_vars

SpecMetrics == Init /\ [][NextMetrics]_vars

SpecClient == Init /\ [][NextClient]_vars

SpecTracker == Init /\ [][NextTracker]_vars

SpecTcp == Init /\ [][NextTcp]_vars

SpecFanout == Init /\ [][NextFanout]_vars

SpecServer == Init /\ [][NextServer]_vars

SpecWss == Init /\ [][NextWss]_vars

\* a subscriber whose delivery task is never scheduled
Slow == 1

\* every delivery task but the slow one keeps running when it can
FairFanout ==
  /\ Init
  /\ [][NextFanout]_vars
  /\ \A w \in WS \ {Slow} :
       /\ WF_vars(SubWriterTake(w))
       /\ WF_vars(\E o \in PushOutcomes : SubWriterSend(w, o))

(***************************************************************************)
(* Properties of the fan-out server                                        *)
(***************************************************************************)
\* C2: two invocations of the server's close that overlap produce one
\* teardown sequence: stopping the listener, interrupting the client fibers
\* and shutting down the clients queue are each performed at most once.
C2_ServerCloseOnce == \A s \in ServerSteps : srvTeardown[s] <= 1

DeliveryRunning(w) == wsWriter[w] \in {"take", "send"}

\* the delivery task of w has pushed everything that was offered to w
AllPushed(w) == wsOutgoingQueue[w] = <<>> /\ wsData[w] = None

\* C3: a subscriber whose queue is never drained does not hold up the
\* others: an offer to the open outgoing queue of any subscriber is accepted
\* at once, whatever the other queues hold, and every message offered to a
\* subscriber other than the slow one is eventually pushed by that
\* subscriber's own delivery task (as long as that task is running): again
\* and again the running tasks of the other subscribers have pushed all that
\* was offered to them.
C3_SlowSubscriberDoesNotBlock ==
  /\ [](\A w \in WS :
          (wsState[w] # "new" /\ ~wsQueuesShutdown[w]
             /\ OfferedCount(WS) < MaxMsgs) => ENABLED SubSend(w))
  /\ []<>(\A w \in WS \ {Slow} : DeliveryRunning(w) => AllPushed(w))

\* the slow subscriber still holds an undelivered message while a message
\* offered later to another subscriber has been pushed by that subscriber's
\* running task
C3_Witness ==
  /\ wsOutgoingQueue[Slow] # <<>>
  /\ pushLog[Slow] = <<>>
  /\ \E w \in WS \ {Slow} :
       /\ pushLog[w] # <<>>
       /\ pushLog[w] = offered[w]
       /\ DeliveryRunning(w)
       /\ Head(wsOutgoingQueue[Slow]) < Head(pushLog[w])

IsPrefix(p, q) == Len(p) <= Len(q) /\ SubSeq(q, 1, Len(p)) = p

Held(w) == IF wsData[w] = None THEN <<>> ELSE <<wsData[w]>>

\* C4: for each subscriber the messages pushed with ws.send are, in order, a
\* prefix of the messages offered to its outgoing queue, and while the
\* delivery task runs the offered messages are exactly the pushed ones, the
\* one being pushed and the queued ones, in this order: none is skipped and
\* none is pushed twice.
C4_FifoPerSubscriber ==
  \A w \in WS :
    /\ IsPrefix(pushLog[w], offered[w])
    /\ DeliveryRunning(w) =>
         offered[w] = pushLog[w] \o Held(w) \o wsOutgoingQueue[w]

\* two messages pushed to one subscriber whose task is still running
C4_Witness ==
  \E w \in WS : Len(pushLog[w]) >= 2 /\ DeliveryRunning(w)

\* C8: a failing ws.send does not terminate the delivery task: as long as
\* the subscriber's client fiber has not been interrupted, its delivery task
\* is running and goes on to take the messages that follow.
C8_PushFailureKeepsTask ==
  \A w \in WS : clientFiber[w] = "running" => DeliveryRunning(w)

\* C10: after the close callback of a subscriber has fired, that
\* subscriber's client fiber is being stopped or has stopped, and a
\* subscriber whose close callback has not fired keeps its running fiber and
\* its open queues.
C10_CloseStopsOnlyThatSubscriber ==
  \A w \in WS :
    /\ wsState[w] = "closed" => clientFiber[w] \in {"closing", "cleanup", "done"}
    /\ wsState[w] = "open" =>
         clientFiber[w] = "running" /\ ~wsQueuesShutdown[w]

\* C11: any two connections the server has opened carry different ids, and
\* the client fiber of every subscriber whose fiber is running is the one the
\* registry holds under that subscriber's id.
C11_SubscriberIdsUnique ==
  /\ \A v, w \in WS :
       (v # w /\ wsId[v] # NoId /\ wsId[w] # NoId) => wsId[v] # wsId[w]
  /\ \A w \in WS : clientFiber[w] = "running" => clients[wsId[w]] = w

\* a run of close has come to its end (or found the flag set by one that did)
CloseCompleted == \E c \in Closers : closePc[c] \in {"done", "noop"}

\* C12: once a run of the server's close has completed, no delivery task is
\* running, no client fiber is running, the registry is empty, the queues of
\* every connection that was opened are shut down and the clients queue is
\* shut down (which ends the `clients` stream); as no connection is opened
\* after bunServer.stop(), this stays so.
C12_CloseReleasesEverything ==
  CloseCompleted =>
    /\ \A w \in WS :
         wsState[w] # "new" =>
           /\ ~DeliveryRunning(w)
           /\ clientFiber[w] = "done"
           /\ wsQueuesShutdown[w]
    /\ RegisteredFibers = {}
    /\ ClientsQueueShutdown

(***************************************************************************)
(* Properties of broadcastToClients                                        *)
(***************************************************************************)
\* C9: when the push to one client fails during a broadcast, every other
\* client that was connected receives the message of that broadcast.
C9_BroadcastIsolation ==
  \A c \in lastBroadcast.targets :
    c # lastBroadcast.failed =>
      lastBroadcast.msg \in Range(wssReceived[c])

(***************************************************************************)
(* Closing, failing and connecting of TcpStreamLive                        *)
(***************************************************************************)
\* the run of performShutdown that passed the guard has shut down the queues
CleanupDone == \E t \in Triggers : shutPc[t] = "done"

\* the messages bunSocket.write has been called with
Written == {writeLog[i][1] : i \in DOMAIN writeLog}

\* C13: every message that was in the outgoing queue when the teardown began
\* has been handed to bunSocket.write by the time the teardown has shut down
\* the queues.
C13_CloseDrainsOutgoing ==
  CleanupDone => \A k \in DOMAIN queuedAtClose : queuedAtClose[k] \in Written

\* C14: a connection whose writer fiber has failed does not go on accepting
\* messages: unless its teardown has begun, no step adds a message to the
\* outgoing queue.
C14_WriterFailureIsTerminal ==
  [][(writerFiber = "failed" /\ ~isClosing)
       => Len(outgoingQueue') <= Len(outgoingQueue)]_vars

\* C16: once the teardown has shut down the queues the closing flag stays
\* set, the writer fiber is not running, and neither a call of
\* bunSocket.write nor an emission of the stream has happened since: the
\* numbers of both are the ones the teardown left.
C16_ClosedIsTerminal ==
  CleanupDone =>
    /\ isClosing
    /\ ~WriterRunning
    /\ Len(writeLog) = atCleanup.writes
    /\ Len(streamLog) = atCleanup.emitted

\* after the teardown send was called and the data callback fired
C16_Witness ==
  /\ CleanupDone
  /\ sendCount > atCleanup.sends
  /\ dataCount > atCleanup.data

TeardownAtRest == \A t \in Triggers : shutPc[t] \notin {"sleep", "queues"}

\* C36: a connection whose closing flag is set and whose teardown has no
\* step left to run has completed the cleanup: the writer was interrupted
\* and both queues are shut down, also when the trigger was a socket
\* callback that fired before the connect completed.
C36_ClosingCompletes ==
  (isClosing /\ TeardownAtRest) =>
    /\ teardown["interrupt"] = 1
    /\ IncomingShutdown
    /\ OutgoingShutdown

\* C37: every chunk the data callback placed in the incoming queue before
\* the cleanup has been delivered to the consumer of `stream`: when the queue
\* is shut down no chunk is left in it.
C37_QueuedChunksDelivered == IncomingShutdown => incomingQueue = <<>>

\* C38: once the teardown has ended the socket (bunSocket.end()) no call of
\* bunSocket.write follows.
C38_NoWriteAfterEnd ==
  [][teardown["end"] >= 1 => writeLog' = writeLog]_vars

\* the timer of Effect.timeout and the steps of a running teardown are not
\* held up for ever
FairTcp ==
  /\ Init
  /\ [][NextTcp]_vars
  /\ WF_vars(Tick)
  /\ WF_vars(ConnectTimeout)
  /\ \A t \in Triggers :
       /\ WF_vars(PerformShutdownInterrupt(t))
       /\ WF_vars(PerformShutdownQueues(t))

\* C17: a connect that is still pending when the 3 seconds are over does not
\* stay pending: the construction fails, and after a timeout no writer fiber
\* exists and nothing of the handle (send, close, stream) has been used.
C17_ConnectTimesOut ==
  /\ [](connState = "timeout" =>
          /\ writerFiber = "none"
          /\ sendCount = 0 /\ dataCount = 0
          /\ shutPc["close"] = "idle" /\ shutPc["streamEnd"] = "idle")
  /\ (connState = "connecting" /\ connectTimer = ConnectTimeoutSeconds)
       ~> (connState \in {"timeout", "failed"})

\* the construction failed by timeout
C17_Witness == connState = "timeout" /\ connectTimer = TimerOff

=============================================================================
